---- MODULE Spec2Model ----
(***************************************************************************)
(* A model of the persistence handlers of the charity-management server:   *)
(* five tables (users, categories, products, orders, order items) and the  *)
(* create / getAll / getById / update / delete handlers over them.         *)
(*                                                                         *)
(* Spec runs one handler call at a time (each handler is one action, all   *)
(* its statements included).  SpecRace runs the statements of several      *)
(* in-flight handler calls interleaved, one storage statement per step.    *)
(*                                                                         *)
(* A handler touches its own table and reads other tables only to test     *)
(* whether a referenced id exists.  A behaviour therefore fixes one        *)
(* namespace (scope) whose handlers get every input; the tables its        *)
(* foreign keys point at start with one row, written by the create         *)
(* handlers themselves, and are only deleted from.                         *)
(***************************************************************************)
EXTENDS Integers, Sequences, FiniteSets, TLC

\* ------------------------------------------------------------------ bounds
\* serial ids handed out per table
MaxId == 2
\* last value of the millisecond clock
MaxTime == 1
\* update calls that write a row, per behaviour
MaxUpdates == 1
\* SpecRace: clients with a call in flight, one call each
MaxClients == 2

\* an id no serial column hands out within the bounds
MissingId == MaxId + 1
Ids == 1..MissingId
Entities == {"users", "categories", "products", "orders", "orderItems"}
Clients == 1..MaxClients

\* the enumerations of the schema
userRoleSchema == {"admin", "user", "guest"}
orderStatusSchema == {"pending", "processing", "shipped", "delivered", "cancelled"}

\* ------------------------------------------------------------ JS values
\* null is the empty tuple, a present nullable value v the tuple <<v>>;
\* undefined is a key missing from the input.
Null == <<>>
Some(v) == <<v>>
Has(input, k) == k \in DOMAIN input
Pick(f, keys) == [k \in keys |-> f[k]]
\* the sets of optional fields an update input supplies: none, one, or all
Supplied(optional) == {S \in SUBSET optional : Cardinality(S) \in {0, 1, Cardinality(optional)}}

\* a || b on strings: the empty string is falsy
OrStr(input, k, default) ==
  IF Has(input, k) /\ input[k] # "" THEN input[k] ELSE default
\* a || null on nullable strings: undefined, null and "" give null
OrNullStr(input, k) ==
  IF Has(input, k) /\ input[k] # Null /\ input[k] # Some("") THEN input[k] ELSE Null
\* a || b in the place of a ?? b: false and 0 give the default too
CoalesceOr(input, k, default) ==
  IF Has(input, k) /\ input[k] \notin {FALSE, 0} THEN input[k] ELSE default
\* a ?? b: only undefined (and null) give the default
Coalesce(input, k, default) ==
  IF Has(input, k) THEN input[k] ELSE default

\* --------------------------------------------------- numeric-as-text codec
\* A number that may carry a fraction (a currency amount, a quantity) is a
\* count of hundredths: 1999 is 19.99 and 200 is 2; an id is a plain
\* integer.  Number.prototype.toString writes
\* the shortest decimal text: the whole part and the fraction digits with no
\* trailing zero.  parseFloat reads the text back.
toString(n) ==
  [whole |-> n \div 100,
   frac  |-> IF n % 100 = 0 THEN <<>>
             ELSE IF n % 10 = 0 THEN <<(n % 100) \div 10>>
             ELSE <<(n % 100) \div 10, n % 10>>]

\* parseInt reads the whole part only
parseInt(t) == t.whole * 100

parseFloat(t) ==
  t.whole * 100
    + (IF Len(t.frac) >= 1 THEN t.frac[1] * 10 ELSE 0)
    + (IF Len(t.frac) >= 2 THEN t.frac[2] ELSE 0)

\* --------------------------------------------------------------- storage
VARIABLES
  usersTable, categoriesTable, productsTable, ordersTable, orderItemsTable,
  serial,    \* per table, the next id its serial column hands out
  clock,     \* the millisecond clock read by now() and new Date()
  scope,     \* the namespace whose handlers get every input
  updates,   \* update calls made so far
  last,      \* the last finished call: handler, input, outcome
  before,    \* the tables as they were when the last call started
  deleted,   \* history: per table, the ids of the rows deleted so far
  issued,    \* history: per table, the ids create calls returned, in order
  calls,     \* SpecRace: the in-flight call of each client
  ui         \* SpecClient: the state of the management component on screen

tables == <<usersTable, categoriesTable, productsTable, ordersTable, orderItemsTable>>
vars == <<tables, serial, clock, scope, updates, last, before, deleted, issued, calls, ui>>

Empty == [i \in {} |-> 0]
\* insert ... returning
\* two rows that differ at most in the generated columns
SameFields(r1, r2) ==
  /\ DOMAIN r1 = DOMAIN r2
  /\ \A k \in DOMAIN r1 \ {"id", "created_at", "updated_at"} : r1[k] = r2[k]

\* insert ... on conflict do nothing, the conflict being a row of equal fields
InsertOnce(table, row) ==
  IF \E i \in DOMAIN table : SameFields(table[i], row)
  THEN table
  ELSE [i \in DOMAIN table \cup {row.id} |-> IF i = row.id THEN row ELSE table[i]]

Insert(table, row) ==
  [i \in DOMAIN table \cup {row.id} |-> IF i = row.id THEN row ELSE table[i]]
\* select ... with the where clause left out
SelectUnfiltered(table, id) == IF table = Empty THEN <<>> ELSE <<table[CHOOSE i \in DOMAIN table : TRUE]>>

\* select ... where id = ?
Select(table, id) == IF id \in DOMAIN table THEN <<table[id]>> ELSE <<>>
\* delete ... where id = ?
Delete(table, id) == [i \in DOMAIN table \ {id} |-> table[i]]
\* the rows in insertion order, which is the order of their serial ids
RECURSIVE SelectAll(_)
SelectAll(table) ==
  IF DOMAIN table = {} THEN <<>>
  ELSE LET m == CHOOSE i \in DOMAIN table : \A j \in DOMAIN table : j <= i
       IN Append(SelectAll(Delete(table, m)), table[m])
\* select ... from table, no where and no order by: every row once, in an
\* order the storage engine chooses
SelectFrom(table) ==
  LET rows == SelectAll(table)
      n == Len(rows)
  IN { [i \in 1..n |-> rows[f[i]]] :
         f \in {g \in [1..n -> 1..n] : \A i, j \in 1..n : i # j => g[i] # g[j]} }

\* select ... from table where <column> = ?, no order by
SelectWhere(table, column, v) ==
  SelectFrom([i \in {j \in DOMAIN table : table[j][column] = v} |-> table[i]])

\* insert ... on conflict (id) do update set ...
Upsert(table, id, set) ==
  [i \in DOMAIN table \cup {id} |->
     IF i # id THEN table[i]
     ELSE IF i \in DOMAIN table
     THEN [k \in DOMAIN table[i] |-> IF k \in DOMAIN set THEN set[k] ELSE table[i][k]]
     ELSE set @@ [id |-> id]]

\* update ... set ... where id = ?
Update(table, id, set) ==
  [i \in DOMAIN table |->
     IF i = id
     THEN [k \in DOMAIN table[i] |-> IF k \in DOMAIN set THEN set[k] ELSE table[i][k]]
     ELSE table[i]]

\* ---------------------------------------------------------------- outcomes
\* a finished call: the handler, its input, and what it returned or threw
Returned(op, input, v) == [op |-> op, input |-> input, kind |-> "ok", value |-> v]
Thrown(op, input, text, n) ==
  [op |-> op, input |-> input, kind |-> "error", value |-> [text |-> text, n |-> n]]
NoCall == [op |-> "none", input |-> <<>>, kind |-> "none", value |-> Null]
NoInput == <<>>
\* no component on screen
NoUi == [component |-> "none"]

\* .returning() of an insert: the call that returned a row has issued its id
Returning(entity) ==
  /\ issued' = IF last'.kind = "ok"
               THEN [issued EXCEPT ![entity] = Append(@, last'.value.id)]
               ELSE issued
  /\ UNCHANGED ui

\* the column defaults of an inserted row: the serial id and now() twice
ColumnDefaults(id, t) == [id |-> id, created_at |-> t, updated_at |-> t]
\* order items carry no updated_at
OrderItemDefaults(id, t) == [id |-> id, created_at |-> t]

\* ------------------------------------------------------------------ users
CreateUserInputs ==
  { Pick(full, {"name", "email"} \cup S) :
      full \in [name : {"n1"}, email : {"e1"}, role : {"admin"}, is_active : {FALSE}],
      S \in {{}, {"role", "is_active"}} }

UpdateUserInputs ==
  { Pick(full, {"id"} \cup S) :
      full \in [id : Ids, name : {"n2"}, email : {"e2"}, role : {"guest"},
                is_active : {FALSE}],
      S \in Supplied({"name", "email", "role", "is_active"}) }

\* the row insert(usersTable).values(...) stores; id, created_at and
\* updated_at are the column defaults
UserValues(id, input, t) ==
  [name |-> input.name, email |-> input.email,
   role |-> OrStr(input, "role", "user"),
   is_active |-> Coalesce(input, "is_active", TRUE)]
    @@ ColumnDefaults(id, t)

\* the set(...) of updateUser with the timestamp written to created_at
UserUpdateValuesCreatedAt(input, t) ==
  [k \in (DOMAIN input \ {"id"}) \cup {"created_at"} |->
     IF k = "created_at" THEN t ELSE input[k]]

\* the set(...) of updateUser
UserUpdateValues(input, t) ==
  [k \in (DOMAIN input \ {"id"}) \cup {"updated_at"} |->
     IF k = "updated_at" THEN t ELSE input[k]]

createUser(input) ==
  /\ scope = "users"
  /\ serial.users <= MaxId
  /\ LET row == UserValues(serial.users, input, clock)
     IN /\ usersTable' = Insert(usersTable, row)
        /\ last' = Returned("createUser", input, row)
  /\ serial' = [serial EXCEPT !.users = @ + 1]
  /\ UNCHANGED <<categoriesTable, productsTable, ordersTable, orderItemsTable,
                 clock, scope, updates, deleted, calls>>
  /\ before' = tables
  /\ Returning("users")

getUsers ==
  /\ scope = "users"
  /\ \E result \in SelectFrom(usersTable) :
       last' = Returned("getUsers", NoInput, result)
  /\ UNCHANGED <<tables, serial, clock, scope, updates, deleted, issued, ui, calls>>
  /\ before' = tables

\* result[0] || null
UserById(id) == Select(usersTable, id)

\* getUserById that stamps the row it reads
getUserByIdTouching(input) ==
  /\ scope = "users"
  /\ last' = Returned("getUserById", input, UserById(input.id))
  /\ usersTable' = Update(usersTable, input.id, [updated_at |-> clock])
  /\ UNCHANGED <<categoriesTable, productsTable, ordersTable, orderItemsTable,
                 serial, clock, scope, updates, deleted, issued, ui, calls>>
  /\ before' = tables

getUserById(input) ==
  /\ scope = "users"
  /\ last' = Returned("getUserById", input, UserById(input.id))
  /\ UNCHANGED <<tables, serial, clock, scope, updates, deleted, issued, ui, calls>>
  /\ before' = tables

updateUser(input) ==
  /\ scope = "users"
  /\ IF UserById(input.id) = Null
     THEN /\ last' = Thrown("updateUser", input, "User with ID <n> not found", input.id)
          /\ UNCHANGED <<usersTable, updates>>
     ELSE /\ updates < MaxUpdates
          /\ usersTable' = Update(usersTable, input.id, UserUpdateValues(input, clock))
          /\ last' = Returned("updateUser", input, usersTable'[input.id])
          /\ updates' = updates + 1
  /\ UNCHANGED <<categoriesTable, productsTable, ordersTable, orderItemsTable,
                 serial, clock, scope, deleted, issued, ui, calls>>
  /\ before' = tables

deleteUser(input) ==
  /\ scope \in {"users", "orders"}
  /\ IF UserById(input.id) = Null
     THEN /\ last' = Thrown("deleteUser", input, "User with ID <n> not found", input.id)
          /\ UNCHANGED usersTable
     ELSE /\ usersTable' = Delete(usersTable, input.id)
          /\ last' = Returned("deleteUser", input, [success |-> TRUE])
  /\ UNCHANGED <<categoriesTable, productsTable, ordersTable, orderItemsTable,
                 serial, clock, scope, updates, calls>>
  /\ before' = tables
  /\ deleted' = [deleted EXCEPT !["users"] = @ \cup ({input.id} \cap DOMAIN usersTable)]
  /\ UNCHANGED <<issued, ui>>

\* ------------------------------------------------------------- categories
CreateCategoryInputs ==
  { Pick(full, {"name"} \cup S) :
      full \in [name : {"n1"}, description : {Some("d1")}, is_active : {FALSE}],
      S \in {{}, {"description", "is_active"}} }

UpdateCategoryInputs ==
  { Pick(full, {"id"} \cup S) :
      full \in [id : Ids, name : {"n2"}, description : {Null}, is_active : {FALSE}],
      S \in Supplied({"name", "description", "is_active"}) }

CategoryValues(id, input, t) ==
  [name |-> input.name,
   description |-> OrNullStr(input, "description"),
   is_active |-> Coalesce(input, "is_active", TRUE)]
    @@ ColumnDefaults(id, t)

\* updateData of updateCategory
CategoryUpdateData(input, t) ==
  [k \in (DOMAIN input \ {"id"}) \cup {"updated_at"} |->
     IF k = "updated_at" THEN t ELSE input[k]]

createCategory(input) ==
  /\ scope = "categories"
  /\ serial.categories <= MaxId
  /\ LET row == CategoryValues(serial.categories, input, clock)
     IN /\ categoriesTable' = Insert(categoriesTable, row)
        /\ last' = Returned("createCategory", input, row)
  /\ serial' = [serial EXCEPT !.categories = @ + 1]
  /\ UNCHANGED <<usersTable, productsTable, ordersTable, orderItemsTable,
                 clock, scope, updates, deleted, calls>>
  /\ before' = tables
  /\ Returning("categories")

getCategories ==
  /\ scope = "categories"
  /\ \E result \in SelectFrom(categoriesTable) :
       last' = Returned("getCategories", NoInput, result)
  /\ UNCHANGED <<tables, serial, clock, scope, updates, deleted, issued, ui, calls>>
  /\ before' = tables

getCategoryById(input) ==
  /\ scope = "categories"
  /\ last' = Returned("getCategoryById", input, Select(categoriesTable, input.id))
  /\ UNCHANGED <<tables, serial, clock, scope, updates, deleted, issued, ui, calls>>
  /\ before' = tables

updateCategory(input) ==
  /\ scope = "categories"
  /\ LET written == Update(categoriesTable, input.id, CategoryUpdateData(input, clock))
         result == Select(written, input.id)
     IN IF Len(result) = 0
        THEN /\ last' = Thrown("updateCategory", input,
                               "Category with ID <n> not found", input.id)
             /\ UNCHANGED <<categoriesTable, updates>>
        ELSE /\ updates < MaxUpdates
             /\ categoriesTable' = written
             /\ last' = Returned("updateCategory", input, result[1])
             /\ updates' = updates + 1
  /\ UNCHANGED <<usersTable, productsTable, ordersTable, orderItemsTable,
                 serial, clock, scope, deleted, issued, ui, calls>>
  /\ before' = tables

deleteCategory(input) ==
  /\ scope \in {"categories", "products"}
  /\ categoriesTable' = Delete(categoriesTable, input.id)
  /\ last' = Returned("deleteCategory", input,
                      [success |-> Len(Select(categoriesTable, input.id)) > 0])
  /\ UNCHANGED <<usersTable, productsTable, ordersTable, orderItemsTable,
                 serial, clock, scope, updates, calls>>
  /\ before' = tables
  /\ deleted' = [deleted EXCEPT !["categories"] = @ \cup ({input.id} \cap DOMAIN categoriesTable)]
  /\ UNCHANGED <<issued, ui>>

\* --------------------------------------------------------------- products
CreateProductInputs ==
  { Pick(full, {"name", "price"} \cup S) :
      full \in [name : {"n1"}, description : {Some("d1")}, price : {1999},
                stock_quantity : {0, 500}, category_id : {Some(1), Some(MissingId)},
                is_active : {FALSE}],
      S \in {{}, {"description", "stock_quantity", "category_id", "is_active"}} }

UpdateProductInputs ==
  { Pick(full, {"id"} \cup S) :
      full \in [id : Ids, name : {"n2"}, description : {Null}, price : {950},
                stock_quantity : {700}, category_id : {Some(MissingId)},
                is_active : {FALSE}],
      S \in Supplied({"name", "description", "price", "stock_quantity",
                      "category_id", "is_active"}) }

\* the stored row: price is text
ProductValues(id, input, t) ==
  [name |-> input.name,
   description |-> OrNullStr(input, "description"),
   price |-> toString(input.price),
   stock_quantity |-> Coalesce(input, "stock_quantity", 0),
   \* input.category_id || null: undefined, null and 0 give null
   category_id |-> IF Has(input, "category_id") /\ input.category_id # Null
                      /\ input.category_id # Some(0)
                   THEN input.category_id ELSE Null,
   is_active |-> Coalesce(input, "is_active", TRUE)]
    @@ ColumnDefaults(id, t)

\* updateValues of updateProduct with description written on every call,
\* as input.description || null
ProductUpdateValuesEager(input, t) ==
  [k \in (DOMAIN input \ {"id"}) \cup {"description", "updated_at"} |->
     IF k = "updated_at" THEN t
     ELSE IF k = "price" THEN toString(input.price)
     ELSE IF k = "description" THEN OrNullStr(input, "description")
     ELSE input[k]]

\* updateValues of updateProduct
ProductUpdateValues(input, t) ==
  [k \in (DOMAIN input \ {"id"}) \cup {"updated_at"} |->
     IF k = "updated_at" THEN t
     ELSE IF k = "price" THEN toString(input.price)
     ELSE input[k]]

\* { ...product, price: parseFloat(product.price) }
Product(row) == [row EXCEPT !.price = parseFloat(@)]

\* createProduct with a lookup of the category before the insert
createProductChecked(input) ==
  /\ scope = "products"
  /\ serial.products <= MaxId
  /\ LET row == ProductValues(serial.products, input, clock)
     IN IF Has(input, "category_id") /\ input.category_id # Null
           /\ Len(Select(categoriesTable, input.category_id[1])) = 0
        THEN /\ last' = Thrown("createProduct", input, "Category with ID <n> not found",
                               input.category_id[1])
             /\ UNCHANGED <<productsTable, serial>>
        ELSE /\ productsTable' = Insert(productsTable, row)
             /\ last' = Returned("createProduct", input, Product(row))
             /\ serial' = [serial EXCEPT !.products = @ + 1]
  /\ UNCHANGED <<usersTable, categoriesTable, ordersTable, orderItemsTable,
                 clock, scope, updates, deleted, calls>>
  /\ before' = tables
  /\ Returning("products")

createProduct(input) ==
  /\ scope = "products"
  /\ serial.products <= MaxId
  /\ LET row == ProductValues(serial.products, input, clock)
     IN /\ productsTable' = Insert(productsTable, row)
        /\ last' = Returned("createProduct", input, Product(row))
  /\ serial' = [serial EXCEPT !.products = @ + 1]
  /\ UNCHANGED <<usersTable, categoriesTable, ordersTable, orderItemsTable,
                 clock, scope, updates, deleted, calls>>
  /\ before' = tables
  /\ Returning("products")

getProducts ==
  /\ scope = "products"
  /\ \E results \in SelectFrom(productsTable) :
       last' = Returned("getProducts", NoInput,
                         [i \in DOMAIN results |-> Product(results[i])])
  /\ UNCHANGED <<tables, serial, clock, scope, updates, deleted, issued, ui, calls>>
  /\ before' = tables

getProductById(input) ==
  /\ scope = "products"
  /\ LET results == Select(productsTable, input.id)
     IN last' = Returned("getProductById", input,
                         IF Len(results) = 0 THEN Null ELSE Some(Product(results[1])))
  /\ UNCHANGED <<tables, serial, clock, scope, updates, deleted, issued, ui, calls>>
  /\ before' = tables

updateProduct(input) ==
  /\ scope = "products"
  /\ LET written == Update(productsTable, input.id, ProductUpdateValues(input, clock))
         results == Select(written, input.id)
     IN IF Len(results) = 0
        THEN /\ last' = Thrown("updateProduct", input,
                               "Product with ID <n> not found", input.id)
             /\ UNCHANGED <<productsTable, updates>>
        ELSE /\ updates < MaxUpdates
             /\ productsTable' = written
             /\ last' = Returned("updateProduct", input, Product(results[1]))
             /\ updates' = updates + 1
  /\ UNCHANGED <<usersTable, categoriesTable, ordersTable, orderItemsTable,
                 serial, clock, scope, deleted, issued, ui, calls>>
  /\ before' = tables

deleteProduct(input) ==
  /\ scope \in {"products", "orderItems"}
  /\ productsTable' = Delete(productsTable, input.id)
  /\ last' = Returned("deleteProduct", input,
                      [success |-> Len(Select(productsTable, input.id)) > 0])
  /\ UNCHANGED <<usersTable, categoriesTable, ordersTable, orderItemsTable,
                 serial, clock, scope, updates, calls>>
  /\ before' = tables
  /\ deleted' = [deleted EXCEPT !["products"] = @ \cup ({input.id} \cap DOMAIN productsTable)]
  /\ UNCHANGED <<issued, ui>>

\* ----------------------------------------------------------------- orders
CreateOrderInputs ==
  { Pick(full, {"user_id", "total_amount"} \cup S) :
      full \in [user_id : {1, MissingId}, status : {"processing"},
                total_amount : {9999}, notes : {Some("t1")}],
      S \in {{}, {"status", "notes"}} }

UpdateOrderInputs ==
  { Pick(full, {"id"} \cup S) :
      full \in [id : Ids, user_id : {1, MissingId}, status : {"shipped"},
                total_amount : {0}, notes : {Null}],
      S \in Supplied({"user_id", "status", "total_amount", "notes"}) }

OrderValues(id, input, t) ==
  [user_id |-> input.user_id,
   status |-> OrStr(input, "status", "pending"),
   total_amount |-> toString(input.total_amount),
   notes |-> OrNullStr(input, "notes")]
    @@ ColumnDefaults(id, t)

\* updateData of updateOrder
OrderUpdateData(input, t) ==
  [k \in (DOMAIN input \ {"id"}) \cup {"updated_at"} |->
     IF k = "updated_at" THEN t
     ELSE IF k = "total_amount" THEN toString(input.total_amount)
     ELSE input[k]]

\* { ...order, total_amount: parseFloat(order.total_amount) }
Order(row) == [row EXCEPT !.total_amount = parseFloat(@)]

\* select().from(usersTable).where(eq(usersTable.id, input.user_id)) with the
\* where clause left out
existingUserUnfiltered(input) == SelectAll(usersTable)

\* select().from(usersTable).where(eq(usersTable.id, input.user_id))
existingUser(input) == Select(usersTable, input.user_id)

createOrder(input) ==
  /\ scope = "orders"
  /\ IF Len(existingUser(input)) = 0
        THEN /\ last' = Thrown("createOrder", input, "User with id <n> not found",
                               input.user_id)
             /\ UNCHANGED <<ordersTable, serial>>
        ELSE /\ serial.orders <= MaxId
             /\ LET row == OrderValues(serial.orders, input, clock)
                IN /\ ordersTable' = Insert(ordersTable, row)
                   /\ last' = Returned("createOrder", input, Order(row))
             /\ serial' = [serial EXCEPT !.orders = @ + 1]
  /\ UNCHANGED <<usersTable, categoriesTable, productsTable, orderItemsTable,
                 clock, scope, updates, deleted, calls>>
  /\ before' = tables
  /\ Returning("orders")

getOrders ==
  /\ scope = "orders"
  /\ \E results \in SelectFrom(ordersTable) :
       last' = Returned("getOrders", NoInput, [i \in DOMAIN results |-> Order(results[i])])
  /\ UNCHANGED <<tables, serial, clock, scope, updates, deleted, issued, ui, calls>>
  /\ before' = tables

getOrderById(input) ==
  /\ scope = "orders"
  /\ LET results == Select(ordersTable, input.id)
     IN last' = Returned("getOrderById", input,
                         IF Len(results) = 0 THEN Null ELSE Some(Order(results[1])))
  /\ UNCHANGED <<tables, serial, clock, scope, updates, deleted, issued, ui, calls>>
  /\ before' = tables

\* updateOrder with a rule that a delivered or cancelled order keeps its status
updateOrderTransitions(input) ==
  /\ scope = "orders"
  /\ IF Has(input, "user_id") /\ Len(Select(usersTable, input.user_id)) = 0
     THEN /\ last' = Thrown("updateOrder", input, "User with id <n> not found",
                            input.user_id)
          /\ UNCHANGED <<ordersTable, updates>>
     ELSE IF /\ Has(input, "status")
             /\ input.id \in DOMAIN ordersTable
             /\ ordersTable[input.id].status \in {"delivered", "cancelled"}
     THEN /\ last' = Thrown("updateOrder", input, "Order <n> is closed", input.id)
          /\ UNCHANGED <<ordersTable, updates>>
     ELSE LET written == Update(ordersTable, input.id, OrderUpdateData(input, clock))
              result == Select(written, input.id)
          IN IF Len(result) = 0
             THEN /\ last' = Thrown("updateOrder", input,
                                    "Order with id <n> not found", input.id)
                  /\ UNCHANGED <<ordersTable, updates>>
             ELSE /\ updates < MaxUpdates
                  /\ ordersTable' = written
                  /\ last' = Returned("updateOrder", input, Order(result[1]))
                  /\ updates' = updates + 1
  /\ UNCHANGED <<usersTable, categoriesTable, productsTable, orderItemsTable,
                 serial, clock, scope, deleted, issued, ui, calls>>
  /\ before' = tables

updateOrder(input) ==
  /\ scope = "orders"
  /\ IF Has(input, "user_id") /\ Len(Select(usersTable, input.user_id)) = 0
     THEN /\ last' = Thrown("updateOrder", input, "User with id <n> not found",
                            input.user_id)
          /\ UNCHANGED <<ordersTable, updates>>
     ELSE LET written == Update(ordersTable, input.id, OrderUpdateData(input, clock))
              result == Select(written, input.id)
          IN IF Len(result) = 0
             THEN /\ last' = Thrown("updateOrder", input,
                                    "Order with id <n> not found", input.id)
                  /\ UNCHANGED <<ordersTable, updates>>
             ELSE /\ updates < MaxUpdates
                  /\ ordersTable' = written
                  /\ last' = Returned("updateOrder", input, Order(result[1]))
                  /\ updates' = updates + 1
  /\ UNCHANGED <<usersTable, categoriesTable, productsTable, orderItemsTable,
                 serial, clock, scope, deleted, issued, ui, calls>>
  /\ before' = tables

\* deleteOrder with the flag of deleteOrderItem
deleteOrderSuccess(input) ==
  /\ scope \in {"orders", "orderItems"}
  /\ ordersTable' = Delete(ordersTable, input.id)
  /\ last' = Returned("deleteOrder", input, [success |-> TRUE])
  /\ UNCHANGED <<usersTable, categoriesTable, productsTable, orderItemsTable,
                 serial, clock, scope, updates, calls>>
  /\ before' = tables
  /\ deleted' = [deleted EXCEPT !["orders"] = @ \cup ({input.id} \cap DOMAIN ordersTable)]
  /\ UNCHANGED <<issued, ui>>

\* deleteOrder that takes the order's items with it
deleteOrderCascade(input) ==
  /\ scope \in {"orders", "orderItems"}
  /\ ordersTable' = Delete(ordersTable, input.id)
  /\ orderItemsTable' =
       [i \in {j \in DOMAIN orderItemsTable : orderItemsTable[j].order_id # input.id}
          |-> orderItemsTable[i]]
  /\ last' = Returned("deleteOrder", input,
                      [success |-> Len(Select(ordersTable, input.id)) > 0])
  /\ UNCHANGED <<usersTable, categoriesTable, productsTable,
                 serial, clock, scope, updates, calls>>
  /\ before' = tables
  /\ deleted' = [deleted EXCEPT !["orders"] = @ \cup ({input.id} \cap DOMAIN ordersTable)]
  /\ UNCHANGED <<issued, ui>>

deleteOrder(input) ==
  /\ scope \in {"orders", "orderItems"}
  /\ ordersTable' = Delete(ordersTable, input.id)
  /\ last' = Returned("deleteOrder", input,
                      [success |-> Len(Select(ordersTable, input.id)) > 0])
  /\ UNCHANGED <<usersTable, categoriesTable, productsTable, orderItemsTable,
                 serial, clock, scope, updates, calls>>
  /\ before' = tables
  /\ deleted' = [deleted EXCEPT !["orders"] = @ \cup ({input.id} \cap DOMAIN ordersTable)]
  /\ UNCHANGED <<issued, ui>>

\* ------------------------------------------------------------ order items
CreateOrderItemInputs ==
  [order_id : {1, MissingId}, product_id : {1, MissingId}, quantity : {200},
   unit_price : {2999}, subtotal : {5998}]

UpdateOrderItemInputs ==
  { Pick(full, {"id"} \cup S) :
      full \in [id : Ids, order_id : {1, MissingId}, product_id : {1, MissingId},
                quantity : {300}, unit_price : {1050}, subtotal : {3150}],
      S \in Supplied({"order_id", "product_id", "quantity", "unit_price", "subtotal"}) }

OrderItemValues(id, input, t) ==
  [order_id |-> input.order_id, product_id |-> input.product_id,
   quantity |-> input.quantity,
   unit_price |-> toString(input.unit_price),
   subtotal |-> toString(input.subtotal)]
    @@ OrderItemDefaults(id, t)

\* updateValues of updateOrderItem
OrderItemUpdateValues(input) ==
  [k \in DOMAIN input \ {"id"} |->
     IF k \in {"unit_price", "subtotal"} THEN toString(input[k]) ELSE input[k]]

\* { ...item, unit_price: parseFloat(...), subtotal: parseFloat(...) }
OrderItem(row) ==
  [row EXCEPT !.unit_price = parseFloat(@), !.subtotal = parseFloat(@)]

\* select().from(ordersTable).where(eq(ordersTable.id, input.order_id))
order(input) == Select(ordersTable, input.order_id)

\* the product lookup with the where clause left out
productUnfiltered(input) == SelectAll(productsTable)

\* select().from(productsTable).where(eq(productsTable.id, input.product_id))
product(input) == Select(productsTable, input.product_id)

createOrderItem(input) ==
  /\ scope = "orderItems"
  /\ IF Len(order(input)) = 0
        THEN /\ last' = Thrown("createOrderItem", input, "Order with ID <n> does not exist",
                               input.order_id)
             /\ UNCHANGED <<orderItemsTable, serial>>
        ELSE IF Len(product(input)) = 0
        THEN /\ last' = Thrown("createOrderItem", input,
                               "Product with ID <n> does not exist", input.product_id)
             /\ UNCHANGED <<orderItemsTable, serial>>
        ELSE /\ serial.orderItems <= MaxId
             /\ LET row == OrderItemValues(serial.orderItems, input, clock)
                IN /\ orderItemsTable' = Insert(orderItemsTable, row)
                   /\ last' = Returned("createOrderItem", input, OrderItem(row))
             /\ serial' = [serial EXCEPT !.orderItems = @ + 1]
  /\ UNCHANGED <<usersTable, categoriesTable, productsTable, ordersTable,
                 clock, scope, updates, deleted, calls>>
  /\ before' = tables
  /\ Returning("orderItems")

getOrderItems ==
  /\ scope = "orderItems"
  /\ \E results \in SelectFrom(orderItemsTable) :
       last' = Returned("getOrderItems", NoInput,
                         [i \in DOMAIN results |-> OrderItem(results[i])])
  /\ UNCHANGED <<tables, serial, clock, scope, updates, deleted, issued, ui, calls>>
  /\ before' = tables

getOrderItemsByOrderId(input) ==
  /\ scope = "orderItems"
  /\ \E results \in SelectWhere(orderItemsTable, "order_id", input.id) :
       last' = Returned("getOrderItemsByOrderId", input,
                         [i \in DOMAIN results |-> OrderItem(results[i])])
  /\ UNCHANGED <<tables, serial, clock, scope, updates, deleted, issued, ui, calls>>
  /\ before' = tables

getOrderItemById(input) ==
  /\ scope = "orderItems"
  /\ LET results == Select(orderItemsTable, input.id)
     IN last' = Returned("getOrderItemById", input,
                         IF Len(results) = 0 THEN Null ELSE Some(OrderItem(results[1])))
  /\ UNCHANGED <<tables, serial, clock, scope, updates, deleted, issued, ui, calls>>
  /\ before' = tables

\* updateOrderItem without the checks of the new order_id and product_id
updateOrderItemUnchecked(input) ==
  /\ scope = "orderItems"
  /\ IF Len(Select(orderItemsTable, input.id)) = 0
     THEN /\ last' = Thrown("updateOrderItem", input,
                            "Order item with ID <n> does not exist", input.id)
          /\ UNCHANGED <<orderItemsTable, updates>>
     ELSE \/ /\ DOMAIN OrderItemUpdateValues(input) = {}
             /\ last' = Thrown("updateOrderItem", input, "No values to set", input.id)
             /\ UNCHANGED <<orderItemsTable, updates>>
          \/ /\ updates < MaxUpdates
             /\ LET written == Update(orderItemsTable, input.id,
                                      OrderItemUpdateValues(input))
                    results == Select(written, input.id)
                IN /\ orderItemsTable' = written
                   /\ last' = Returned("updateOrderItem", input,
                                       OrderItem(results[1]))
             /\ updates' = updates + 1
  /\ UNCHANGED <<usersTable, categoriesTable, productsTable, ordersTable,
                 serial, clock, scope, deleted, issued, ui, calls>>
  /\ before' = tables

\* set({}) with no value to set: the query builder either rejects the
\* statement or writes nothing, depending on its version
updateOrderItem(input) ==
  /\ scope = "orderItems"
  /\ IF Len(Select(orderItemsTable, input.id)) = 0
     THEN /\ last' = Thrown("updateOrderItem", input,
                            "Order item with ID <n> does not exist", input.id)
          /\ UNCHANGED <<orderItemsTable, updates>>
     ELSE IF Has(input, "order_id") /\ Len(Select(ordersTable, input.order_id)) = 0
     THEN /\ last' = Thrown("updateOrderItem", input,
                            "Order with ID <n> does not exist", input.order_id)
          /\ UNCHANGED <<orderItemsTable, updates>>
     ELSE IF Has(input, "product_id") /\ Len(Select(productsTable, input.product_id)) = 0
     THEN /\ last' = Thrown("updateOrderItem", input,
                            "Product with ID <n> does not exist", input.product_id)
          /\ UNCHANGED <<orderItemsTable, updates>>
     ELSE \/ /\ DOMAIN OrderItemUpdateValues(input) = {}
             /\ last' = Thrown("updateOrderItem", input, "No values to set", input.id)
             /\ UNCHANGED <<orderItemsTable, updates>>
          \/ /\ updates < MaxUpdates
             /\ LET written == Update(orderItemsTable, input.id,
                                      OrderItemUpdateValues(input))
                    results == Select(written, input.id)
                IN /\ orderItemsTable' = written
                   /\ last' = Returned("updateOrderItem", input,
                                       OrderItem(results[1]))
             /\ updates' = updates + 1
  /\ UNCHANGED <<usersTable, categoriesTable, productsTable, ordersTable,
                 serial, clock, scope, deleted, issued, ui, calls>>
  /\ before' = tables

\* deleteOrderItem with the flag of deleteOrder
deleteOrderItemReturning(input) ==
  /\ scope = "orderItems"
  /\ orderItemsTable' = Delete(orderItemsTable, input.id)
  /\ last' = Returned("deleteOrderItem", input,
                      [success |-> Len(Select(orderItemsTable, input.id)) > 0])
  /\ UNCHANGED <<usersTable, categoriesTable, productsTable, ordersTable,
                 serial, clock, scope, updates, calls>>
  /\ before' = tables
  /\ deleted' = [deleted EXCEPT !["orderItems"] = @ \cup ({input.id} \cap DOMAIN orderItemsTable)]
  /\ UNCHANGED <<issued, ui>>

deleteOrderItem(input) ==
  /\ scope = "orderItems"
  /\ orderItemsTable' = Delete(orderItemsTable, input.id)
  /\ last' = Returned("deleteOrderItem", input, [success |-> TRUE])
  /\ UNCHANGED <<usersTable, categoriesTable, productsTable, ordersTable,
                 serial, clock, scope, updates, calls>>
  /\ before' = tables
  /\ deleted' = [deleted EXCEPT !["orderItems"] = @ \cup ({input.id} \cap DOMAIN orderItemsTable)]
  /\ UNCHANGED <<issued, ui>>

\* ------------------------------------------------------------- healthcheck
\* { status: 'ok', timestamp: new Date().toISOString() }
healthcheck ==
  /\ last' = Returned("healthcheck", NoInput, [status |-> "ok", timestamp |-> clock])
  /\ UNCHANGED <<tables, serial, clock, scope, updates, deleted, issued, ui, calls>>
  /\ before' = tables

\* ------------------------------------------------------------------- clock
Tick ==
  /\ clock < MaxTime
  /\ clock' = clock + 1
  /\ UNCHANGED <<tables, serial, scope, updates, last, before, deleted, issued, ui, calls>>

\* ---------------------------------------------------------- specification
\* The rows the referenced tables start with: the first create call of each.
SeedUser == UserValues(1, [name |-> "n1", email |-> "e1"], 0)
SeedCategory == CategoryValues(1, [name |-> "n1"], 0)
SeedProduct == ProductValues(1, [name |-> "n1", price |-> 1999], 0)
SeedOrder == OrderValues(1, [user_id |-> 1, total_amount |-> 9999], 0)

Seeded(entity, sc) ==
  \/ entity = "users" /\ sc \in {"orders", "orderItems"}
  \/ entity = "categories" /\ sc = "products"
  \/ entity = "products" /\ sc = "orderItems"
  \/ entity = "orders" /\ sc = "orderItems"

Init ==
  /\ scope \in Entities
  /\ usersTable = IF Seeded("users", scope) THEN Insert(Empty, SeedUser) ELSE Empty
  /\ categoriesTable =
       IF Seeded("categories", scope) THEN Insert(Empty, SeedCategory) ELSE Empty
  /\ productsTable =
       IF Seeded("products", scope) THEN Insert(Empty, SeedProduct) ELSE Empty
  /\ ordersTable = IF Seeded("orders", scope) THEN Insert(Empty, SeedOrder) ELSE Empty
  /\ orderItemsTable = Empty
  /\ serial = [e \in Entities |-> IF Seeded(e, scope) THEN 2 ELSE 1]
  /\ clock = 0
  /\ updates = 0
  /\ last = NoCall
  /\ before = tables
  /\ deleted = [e \in Entities |-> {}]
  /\ issued = [e \in Entities |-> IF Seeded(e, scope) THEN <<1>> ELSE <<>>]
  /\ ui = NoUi
  /\ calls = <<>>

Next ==
  \/ Tick
  \/ healthcheck
  \/ \E input \in CreateUserInputs : createUser(input)
  \/ getUsers
  \/ \E input \in [id : Ids] : getUserById(input)
  \/ \E input \in UpdateUserInputs : updateUser(input)
  \/ \E input \in [id : Ids] : deleteUser(input)
  \/ \E input \in CreateCategoryInputs : createCategory(input)
  \/ getCategories
  \/ \E input \in [id : Ids] : getCategoryById(input)
  \/ \E input \in UpdateCategoryInputs : updateCategory(input)
  \/ \E input \in [id : Ids] : deleteCategory(input)
  \/ \E input \in CreateProductInputs : createProduct(input)
  \/ getProducts
  \/ \E input \in [id : Ids] : getProductById(input)
  \/ \E input \in UpdateProductInputs : updateProduct(input)
  \/ \E input \in [id : Ids] : deleteProduct(input)
  \/ \E input \in CreateOrderInputs : createOrder(input)
  \/ getOrders
  \/ \E input \in [id : Ids] : getOrderById(input)
  \/ \E input \in UpdateOrderInputs : updateOrder(input)
  \/ \E input \in [id : Ids] : deleteOrder(input)
  \/ \E input \in CreateOrderItemInputs : createOrderItem(input)
  \/ getOrderItems
  \/ \E input \in [id : Ids] : getOrderItemById(input)
  \/ \E input \in [id : Ids] : getOrderItemsByOrderId(input)
  \/ \E input \in UpdateOrderItemInputs : updateOrderItem(input)
  \/ \E input \in [id : Ids] : deleteOrderItem(input)

Spec == Init /\ [][Next]_vars

\* SpecStatus: the order handlers with every status of the enumeration on
\* create and on update
InitStatus == Init /\ scope = "orders"

NextStatus ==
  \/ Tick
  \/ \E input \in {[user_id |-> 1, total_amount |-> 9999]}
                   \cup {[user_id |-> 1, total_amount |-> 9999, status |-> s] :
                           s \in orderStatusSchema} :
       createOrder(input)
  \/ \E input \in [id : Ids] : getOrderById(input)
  \/ \E input \in {[id |-> id, status |-> s] : id \in Ids, s \in orderStatusSchema} :
       updateOrder(input)

SpecStatus == InitStatus /\ [][NextStatus]_vars

\* ------------------------------------------------- interleaved statements
\* SpecRace: every await of a handler is a step of its own, and the steps of
\* the clients' calls interleave.  A call keeps the handler's local
\* variables; no transaction spans two statements.
Idle == [op |-> "idle", pc |-> "idle"]

Begin(p, op, input, pc) ==
  /\ calls[p] = Idle
  /\ calls' = [calls EXCEPT ![p] = [op |-> op, input |-> input, pc |-> pc]]
  /\ UNCHANGED <<tables, serial, clock, scope, updates, last, before, deleted, issued, ui>>

At(p, op, pc) == calls[p].op = op /\ calls[p].pc = pc

Finish(p, outcome) ==
  /\ calls' = [calls EXCEPT ![p] = [@ EXCEPT !.pc = "done"] @@ [outcome |-> outcome]]
  /\ last' = outcome
  /\ before' = tables

\* the call goes on to its next await, keeping what the query returned
Continue(p, pc, locals) ==
  /\ calls' = [calls EXCEPT ![p] = [@ EXCEPT !.pc = pc] @@ locals]
  /\ UNCHANGED <<last, before>>

\* createOrder, first await: select the user
createOrder_selectUser(p) ==
  /\ At(p, "createOrder", "selectUser")
  /\ LET input == calls[p].input
     IN IF Len(existingUser(input)) = 0
        THEN Finish(p, Thrown("createOrder", input, "User with id <n> not found",
                              input.user_id))
        ELSE Continue(p, "insert", [existingUser |-> existingUser(input)])
  /\ UNCHANGED <<tables, serial, clock, scope, updates, deleted, issued, ui>>

\* createOrder, second await: insert the order
createOrder_insert(p) ==
  /\ At(p, "createOrder", "insert")
  /\ serial.orders <= MaxId
  /\ LET input == calls[p].input
         row == OrderValues(serial.orders, input, clock)
     IN /\ ordersTable' = Insert(ordersTable, row)
        /\ Finish(p, Returned("createOrder", input, Order(row)))
  /\ serial' = [serial EXCEPT !.orders = @ + 1]
  /\ UNCHANGED <<usersTable, categoriesTable, productsTable, orderItemsTable,
                 clock, scope, updates, deleted>>
  /\ Returning("orders")

\* createOrderItem, first await: select the order
createOrderItem_selectOrder(p) ==
  /\ At(p, "createOrderItem", "selectOrder")
  /\ LET input == calls[p].input
     IN IF Len(order(input)) = 0
        THEN Finish(p, Thrown("createOrderItem", input,
                              "Order with ID <n> does not exist", input.order_id))
        ELSE Continue(p, "selectProduct", [order |-> order(input)])
  /\ UNCHANGED <<tables, serial, clock, scope, updates, deleted, issued, ui>>

\* createOrderItem, second await: select the product
createOrderItem_selectProduct(p) ==
  /\ At(p, "createOrderItem", "selectProduct")
  /\ LET input == calls[p].input
     IN IF Len(product(input)) = 0
        THEN Finish(p, Thrown("createOrderItem", input,
                              "Product with ID <n> does not exist", input.product_id))
        ELSE Continue(p, "insert", [product |-> product(input)])
  /\ UNCHANGED <<tables, serial, clock, scope, updates, deleted, issued, ui>>

\* createOrderItem, third await: insert the order item
createOrderItem_insert(p) ==
  /\ At(p, "createOrderItem", "insert")
  /\ serial.orderItems <= MaxId
  /\ LET input == calls[p].input
         row == OrderItemValues(serial.orderItems, input, clock)
     IN /\ orderItemsTable' = Insert(orderItemsTable, row)
        /\ Finish(p, Returned("createOrderItem", input, OrderItem(row)))
  /\ serial' = [serial EXCEPT !.orderItems = @ + 1]
  /\ UNCHANGED <<usersTable, categoriesTable, productsTable, ordersTable,
                 clock, scope, updates, deleted>>
  /\ Returning("orderItems")

\* deleteUser, first await: getUserById
deleteUser_getUserById(p) ==
  /\ At(p, "deleteUser", "getUserById")
  /\ LET input == calls[p].input
     IN IF UserById(input.id) = Null
        THEN Finish(p, Thrown("deleteUser", input, "User with ID <n> not found",
                              input.id))
        ELSE Continue(p, "delete", [user |-> UserById(input.id)])
  /\ UNCHANGED <<tables, serial, clock, scope, updates, deleted, issued, ui>>

\* deleteUser, second await: delete the row
deleteUser_delete(p) ==
  /\ At(p, "deleteUser", "delete")
  /\ usersTable' = Delete(usersTable, calls[p].input.id)
  /\ Finish(p, Returned("deleteUser", calls[p].input, [success |-> TRUE]))
  /\ UNCHANGED <<categoriesTable, productsTable, ordersTable, orderItemsTable,
                 serial, clock, scope, updates>>
  /\ deleted' = [deleted EXCEPT !["users"] = @ \cup ({calls[p].input.id} \cap DOMAIN usersTable)]
  /\ UNCHANGED <<issued, ui>>

\* deleteOrder: its one await
deleteOrder_delete(p) ==
  /\ At(p, "deleteOrder", "delete")
  /\ ordersTable' = Delete(ordersTable, calls[p].input.id)
  /\ Finish(p, Returned("deleteOrder", calls[p].input,
                        [success |-> Len(Select(ordersTable, calls[p].input.id)) > 0]))
  /\ UNCHANGED <<usersTable, categoriesTable, productsTable, orderItemsTable,
                 serial, clock, scope, updates>>
  /\ deleted' = [deleted EXCEPT !["orders"] = @ \cup ({calls[p].input.id} \cap DOMAIN ordersTable)]
  /\ UNCHANGED <<issued, ui>>

\* deleteProduct: its one await
deleteProduct_delete(p) ==
  /\ At(p, "deleteProduct", "delete")
  /\ productsTable' = Delete(productsTable, calls[p].input.id)
  /\ Finish(p, Returned("deleteProduct", calls[p].input,
                        [success |-> Len(Select(productsTable, calls[p].input.id)) > 0]))
  /\ UNCHANGED <<usersTable, categoriesTable, ordersTable, orderItemsTable,
                 serial, clock, scope, updates>>
  /\ deleted' = [deleted EXCEPT !["products"] = @ \cup ({calls[p].input.id} \cap DOMAIN productsTable)]
  /\ UNCHANGED <<issued, ui>>

\* a client sends one request
Request(p) ==
  \/ \E input \in CreateOrderInputs : Begin(p, "createOrder", input, "selectUser")
  \/ \E input \in CreateOrderItemInputs :
       Begin(p, "createOrderItem", input, "selectOrder")
  \/ \E input \in [id : Ids] : Begin(p, "deleteUser", input, "getUserById")
  \/ \E input \in [id : Ids] : Begin(p, "deleteOrder", input, "delete")
  \/ \E input \in [id : Ids] : Begin(p, "deleteProduct", input, "delete")

InitRace ==
  /\ scope = "race"
  /\ usersTable = Insert(Empty, SeedUser)
  /\ categoriesTable = Empty
  /\ productsTable = Insert(Empty, SeedProduct)
  /\ ordersTable = Insert(Empty, SeedOrder)
  /\ orderItemsTable = Empty
  /\ serial = [e \in Entities |-> IF e \in {"users", "products", "orders"} THEN 2 ELSE 1]
  /\ clock = 0
  /\ updates = 0
  /\ last = NoCall
  /\ before = tables
  /\ deleted = [e \in Entities |-> {}]
  /\ issued = [e \in Entities |-> IF e \in {"users", "products", "orders"} THEN <<1>> ELSE <<>>]
  /\ ui = NoUi
  /\ calls = [p \in Clients |-> Idle]

NextRace ==
  \E p \in Clients :
    \/ Request(p)
    \/ createOrder_selectUser(p)
    \/ createOrder_insert(p)
    \/ createOrderItem_selectOrder(p)
    \/ createOrderItem_selectProduct(p)
    \/ createOrderItem_insert(p)
    \/ deleteUser_getUserById(p)
    \/ deleteUser_delete(p)
    \/ deleteOrder_delete(p)
    \/ deleteProduct_delete(p)

SpecRace == InitRace /\ [][NextRace]_vars

\* ------------------------------------- interleaved updates and deletes
\* SpecRaceStored: as SpecRace, over a store that holds one row of every
\* entity; the clients' calls are updates and deletes of those rows.

\* what result[0] is when the statement returned no row
Undefined == [undefined |-> TRUE]

\* updateUser, first await: getUserById
updateUser_getUserById(p) ==
  /\ At(p, "updateUser", "getUserById")
  /\ LET input == calls[p].input
     IN IF UserById(input.id) = Null
        THEN Finish(p, Thrown("updateUser", input, "User with ID <n> not found",
                              input.id))
        ELSE Continue(p, "update", [existingUser |-> UserById(input.id)])
  /\ UNCHANGED <<tables, serial, clock, scope, updates, deleted, issued, ui>>

\* updateUser, second await: update ... returning; return result[0]
updateUser_update(p) ==
  /\ At(p, "updateUser", "update")
  /\ LET input == calls[p].input
         written == Update(usersTable, input.id, UserUpdateValues(input, clock))
         result == Select(written, input.id)
     IN /\ usersTable' = written
        /\ Finish(p, Returned("updateUser", input,
                              IF Len(result) = 0 THEN Undefined ELSE result[1]))
  /\ UNCHANGED <<categoriesTable, productsTable, ordersTable, orderItemsTable,
                 serial, clock, scope, updates, deleted, issued, ui>>

\* the await of updateOrderItem that follows the check named by pc
updateOrderItem_next(input, pc) ==
  IF pc = "selectExisting" /\ Has(input, "order_id") THEN "selectOrder"
  ELSE IF pc \in {"selectExisting", "selectOrder"} /\ Has(input, "product_id")
  THEN "selectProduct"
  ELSE "update"

\* updateOrderItem, first await: select the order item
updateOrderItem_selectExisting(p) ==
  /\ At(p, "updateOrderItem", "selectExisting")
  /\ LET input == calls[p].input
         existing == Select(orderItemsTable, input.id)
     IN IF Len(existing) = 0
        THEN Finish(p, Thrown("updateOrderItem", input,
                              "Order item with ID <n> does not exist", input.id))
        ELSE Continue(p, updateOrderItem_next(input, "selectExisting"),
                      [existing |-> existing])
  /\ UNCHANGED <<tables, serial, clock, scope, updates, deleted, issued, ui>>

\* updateOrderItem, when order_id is supplied: select the order
updateOrderItem_selectOrder(p) ==
  /\ At(p, "updateOrderItem", "selectOrder")
  /\ LET input == calls[p].input
     IN IF Len(order(input)) = 0
        THEN Finish(p, Thrown("updateOrderItem", input,
                              "Order with ID <n> does not exist", input.order_id))
        ELSE Continue(p, updateOrderItem_next(input, "selectOrder"),
                      [order |-> order(input)])
  /\ UNCHANGED <<tables, serial, clock, scope, updates, deleted, issued, ui>>

\* updateOrderItem, when product_id is supplied: select the product
updateOrderItem_selectProduct(p) ==
  /\ At(p, "updateOrderItem", "selectProduct")
  /\ LET input == calls[p].input
     IN IF Len(product(input)) = 0
        THEN Finish(p, Thrown("updateOrderItem", input,
                              "Product with ID <n> does not exist", input.product_id))
        ELSE Continue(p, "update", [product |-> product(input)])
  /\ UNCHANGED <<tables, serial, clock, scope, updates, deleted, issued, ui>>

\* updateOrderItem, last await: update ... returning, then
\* parseFloat(results[0].unit_price), which throws a TypeError when
\* results[0] is undefined
updateOrderItem_update(p) ==
  /\ At(p, "updateOrderItem", "update")
  /\ LET input == calls[p].input
         written == Update(orderItemsTable, input.id, OrderItemUpdateValues(input))
         results == Select(written, input.id)
     IN /\ orderItemsTable' = written
        /\ IF Len(results) = 0
           THEN Finish(p, Thrown("updateOrderItem", input,
                    "TypeError: Cannot read properties of undefined", input.id))
           ELSE Finish(p, Returned("updateOrderItem", input, OrderItem(results[1])))
  /\ UNCHANGED <<usersTable, categoriesTable, productsTable, ordersTable,
                 serial, clock, scope, updates, deleted, issued, ui>>

\* deleteCategory: its one await
deleteCategory_delete(p) ==
  /\ At(p, "deleteCategory", "delete")
  /\ categoriesTable' = Delete(categoriesTable, calls[p].input.id)
  /\ Finish(p, Returned("deleteCategory", calls[p].input,
                        [success |-> Len(Select(categoriesTable, calls[p].input.id)) > 0]))
  /\ UNCHANGED <<usersTable, productsTable, ordersTable, orderItemsTable,
                 serial, clock, scope, updates>>
  /\ deleted' = [deleted EXCEPT !["categories"] =
                   @ \cup ({calls[p].input.id} \cap DOMAIN categoriesTable)]
  /\ UNCHANGED <<issued, ui>>

\* deleteOrderItem: its one await
deleteOrderItem_delete(p) ==
  /\ At(p, "deleteOrderItem", "delete")
  /\ orderItemsTable' = Delete(orderItemsTable, calls[p].input.id)
  /\ Finish(p, Returned("deleteOrderItem", calls[p].input, [success |-> TRUE]))
  /\ UNCHANGED <<usersTable, categoriesTable, productsTable, ordersTable,
                 serial, clock, scope, updates>>
  /\ deleted' = [deleted EXCEPT !["orderItems"] =
                   @ \cup ({calls[p].input.id} \cap DOMAIN orderItemsTable)]
  /\ UNCHANGED <<issued, ui>>

SeedOrderItem ==
  OrderItemValues(1, [order_id |-> 1, product_id |-> 1, quantity |-> 200,
                      unit_price |-> 1050, subtotal |-> 2100], 0)

\* a client sends one update or one delete
RequestStored(p) ==
  \/ \E input \in {[id |-> id, name |-> "n2"] : id \in {1, MissingId}} :
       Begin(p, "updateUser", input, "getUserById")
  \/ \E input \in {[id |-> id, quantity |-> 300, subtotal |-> 3150] : id \in {1, MissingId}}
                   \cup {[id |-> 1, order_id |-> 1, product_id |-> 1],
                         [id |-> 1, product_id |-> MissingId]} :
       Begin(p, "updateOrderItem", input, "selectExisting")
  \/ \E input \in [id : {1, MissingId}] : Begin(p, "deleteUser", input, "getUserById")
  \/ \E input \in [id : {1, MissingId}] : Begin(p, "deleteCategory", input, "delete")
  \/ \E input \in [id : {1, MissingId}] : Begin(p, "deleteProduct", input, "delete")
  \/ \E input \in [id : {1, MissingId}] : Begin(p, "deleteOrder", input, "delete")
  \/ \E input \in [id : {1, MissingId}] : Begin(p, "deleteOrderItem", input, "delete")

InitRaceStored ==
  /\ scope = "race"
  /\ usersTable = Insert(Empty, SeedUser)
  /\ categoriesTable = Insert(Empty, SeedCategory)
  /\ productsTable = Insert(Empty, SeedProduct)
  /\ ordersTable = Insert(Empty, SeedOrder)
  /\ orderItemsTable = Insert(Empty, SeedOrderItem)
  /\ serial = [e \in Entities |-> 2]
  /\ clock = 0
  /\ updates = 0
  /\ last = NoCall
  /\ before = tables
  /\ deleted = [e \in Entities |-> {}]
  /\ issued = [e \in Entities |-> <<1>>]
  /\ ui = NoUi
  /\ calls = [p \in Clients |-> Idle]

NextRaceStored ==
  \E p \in Clients :
    \/ RequestStored(p)
    \/ updateUser_getUserById(p)
    \/ updateUser_update(p)
    \/ updateOrderItem_selectExisting(p)
    \/ updateOrderItem_selectOrder(p)
    \/ updateOrderItem_selectProduct(p)
    \/ updateOrderItem_update(p)
    \/ deleteUser_getUserById(p)
    \/ deleteUser_delete(p)
    \/ deleteCategory_delete(p)
    \/ deleteProduct_delete(p)
    \/ deleteOrder_delete(p)
    \/ deleteOrderItem_delete(p)

SpecRaceStored == InitRaceStored /\ [][NextRaceStored]_vars


\* ------------------------------------------------- placeholder handlers
\* SpecPlaceholder: the router with the handlers of handlers/users.ts,
\* handlers/orders.ts and the first part of handlers/categories.ts, the
\* files index.ts imports by path.  They resolve a literal record and touch
\* no table.
\* a || b on numbers: 0 is falsy
OrNum(input, k, default) ==
  IF Has(input, k) /\ input[k] # 0 THEN input[k] ELSE default

\* return Promise.resolve(v)
PromiseResolve(op, input, v) ==
  /\ last' = Returned(op, input, v)
  /\ before' = tables
  /\ UNCHANGED <<tables, serial, clock, scope, updates, deleted, calls>>

createUserPlaceholder(input) ==
  /\ scope = "placeholder"
  /\ Len(issued.users) < MaxId
  /\ PromiseResolve("createUser", input,
       [id |-> 1, name |-> input.name, email |-> input.email,
        role |-> OrStr(input, "role", "user"),
        is_active |-> Coalesce(input, "is_active", TRUE),
        created_at |-> clock, updated_at |-> clock])
  /\ Returning("users")

getUsersPlaceholder ==
  /\ scope = "placeholder"
  /\ PromiseResolve("getUsers", NoInput, <<>>)
  /\ UNCHANGED <<issued, ui>>

getUserByIdPlaceholder(input) ==
  /\ scope = "placeholder"
  /\ PromiseResolve("getUserById", input, Null)
  /\ UNCHANGED <<issued, ui>>

updateUserPlaceholder(input) ==
  /\ scope = "placeholder"
  /\ PromiseResolve("updateUser", input,
       [id |-> input.id,
        name |-> OrStr(input, "name", "Updated Name"),
        email |-> OrStr(input, "email", "updated@example.com"),
        role |-> OrStr(input, "role", "user"),
        is_active |-> Coalesce(input, "is_active", TRUE),
        created_at |-> clock, updated_at |-> clock])
  /\ UNCHANGED <<issued, ui>>

deleteUserPlaceholder(input) ==
  /\ scope = "placeholder"
  /\ PromiseResolve("deleteUser", input, [success |-> TRUE])
  /\ UNCHANGED <<issued, ui>>

createCategoryPlaceholder(input) ==
  /\ scope = "placeholder"
  /\ Len(issued.categories) < MaxId
  /\ PromiseResolve("createCategory", input,
       [id |-> 1, name |-> input.name,
        description |-> OrNullStr(input, "description"),
        is_active |-> Coalesce(input, "is_active", TRUE),
        created_at |-> clock, updated_at |-> clock])
  /\ Returning("categories")

getCategoriesPlaceholder ==
  /\ scope = "placeholder"
  /\ PromiseResolve("getCategories", NoInput, <<>>)
  /\ UNCHANGED <<issued, ui>>

getCategoryByIdPlaceholder(input) ==
  /\ scope = "placeholder"
  /\ PromiseResolve("getCategoryById", input, Null)
  /\ UNCHANGED <<issued, ui>>

updateCategoryPlaceholder(input) ==
  /\ scope = "placeholder"
  /\ PromiseResolve("updateCategory", input,
       [id |-> input.id,
        name |-> OrStr(input, "name", "Updated Category"),
        description |-> OrNullStr(input, "description"),
        is_active |-> Coalesce(input, "is_active", TRUE),
        created_at |-> clock, updated_at |-> clock])
  /\ UNCHANGED <<issued, ui>>

deleteCategoryPlaceholder(input) ==
  /\ scope = "placeholder"
  /\ PromiseResolve("deleteCategory", input, [success |-> TRUE])
  /\ UNCHANGED <<issued, ui>>

createOrderPlaceholder(input) ==
  /\ scope = "placeholder"
  /\ Len(issued.orders) < MaxId
  /\ PromiseResolve("createOrder", input,
       [id |-> 1, user_id |-> input.user_id,
        status |-> OrStr(input, "status", "pending"),
        total_amount |-> input.total_amount,
        notes |-> OrNullStr(input, "notes"),
        created_at |-> clock, updated_at |-> clock])
  /\ Returning("orders")

getOrdersPlaceholder ==
  /\ scope = "placeholder"
  /\ PromiseResolve("getOrders", NoInput, <<>>)
  /\ UNCHANGED <<issued, ui>>

getOrderByIdPlaceholder(input) ==
  /\ scope = "placeholder"
  /\ PromiseResolve("getOrderById", input, Null)
  /\ UNCHANGED <<issued, ui>>

updateOrderPlaceholder(input) ==
  /\ scope = "placeholder"
  /\ PromiseResolve("updateOrder", input,
       [id |-> input.id,
        user_id |-> OrNum(input, "user_id", 1),
        status |-> OrStr(input, "status", "pending"),
        total_amount |-> OrNum(input, "total_amount", 0),
        notes |-> OrNullStr(input, "notes"),
        created_at |-> clock, updated_at |-> clock])
  /\ UNCHANGED <<issued, ui>>

deleteOrderPlaceholder(input) ==
  /\ scope = "placeholder"
  /\ PromiseResolve("deleteOrder", input, [success |-> TRUE])
  /\ UNCHANGED <<issued, ui>>

\* new Date() moves on between calls
TickPlaceholder ==
  /\ scope = "placeholder"
  /\ clock < MaxTime
  /\ clock' = clock + 1
  /\ UNCHANGED <<tables, serial, scope, updates, last, before, deleted, issued, ui, calls>>

InitPlaceholder ==
  /\ scope = "placeholder"
  /\ usersTable = Empty
  /\ categoriesTable = Empty
  /\ productsTable = Empty
  /\ ordersTable = Empty
  /\ orderItemsTable = Empty
  /\ serial = [e \in Entities |-> 1]
  /\ clock = 0
  /\ updates = 0
  /\ last = NoCall
  /\ before = tables
  /\ deleted = [e \in Entities |-> {}]
  /\ issued = [e \in Entities |-> <<>>]
  /\ ui = NoUi
  /\ calls = <<>>

NextPlaceholder ==
  \/ TickPlaceholder
  \/ \E input \in CreateUserInputs : createUserPlaceholder(input)
  \/ getUsersPlaceholder
  \/ \E input \in [id : Ids] : getUserByIdPlaceholder(input)
  \/ \E input \in UpdateUserInputs : updateUserPlaceholder(input)
  \/ \E input \in [id : Ids] : deleteUserPlaceholder(input)
  \/ \E input \in CreateCategoryInputs : createCategoryPlaceholder(input)
  \/ getCategoriesPlaceholder
  \/ \E input \in [id : Ids] : getCategoryByIdPlaceholder(input)
  \/ \E input \in UpdateCategoryInputs : updateCategoryPlaceholder(input)
  \/ \E input \in [id : Ids] : deleteCategoryPlaceholder(input)
  \/ \E input \in CreateOrderInputs : createOrderPlaceholder(input)
  \/ getOrdersPlaceholder
  \/ \E input \in [id : Ids] : getOrderByIdPlaceholder(input)
  \/ \E input \in UpdateOrderInputs : updateOrderPlaceholder(input)
  \/ \E input \in [id : Ids] : deleteOrderPlaceholder(input)

SpecPlaceholder == InitPlaceholder /\ [][NextPlaceholder]_vars

\* ----------------------------------------------------- input validation
\* SpecRouter: a create or update procedure of the router parses its input
\* with the zod schema and calls the handler with the parsed value; an input
\* the schema refuses never reaches the handler.

\* z.string().min(1)
min1(s) == s # ""
\* z.string().email(): of the addresses in use, the well-formed ones
email(s) == s \in {"e1", "e2"}
\* z.number().int(): no hundredths
int(n) == n % 100 = 0
\* <rule>.optional() is written Has(raw, k) => <rule of raw[k]>

createUserInputSchema(raw) ==
  /\ {"name", "email"} \subseteq DOMAIN raw
  /\ min1(raw.name)
  /\ email(raw.email)
  /\ Has(raw, "role") => raw.role \in userRoleSchema

updateUserInputSchema(raw) ==
  /\ Has(raw, "id")
  /\ Has(raw, "name") => min1(raw.name)
  /\ Has(raw, "email") => email(raw.email)
  /\ Has(raw, "role") => raw.role \in userRoleSchema

createCategoryInputSchema(raw) ==
  /\ Has(raw, "name")
  /\ min1(raw.name)

updateCategoryInputSchema(raw) ==
  /\ Has(raw, "id")
  /\ Has(raw, "name") => min1(raw.name)

createProductInputSchemaLax(raw) ==
  /\ {"name", "price"} \subseteq DOMAIN raw
  /\ min1(raw.name)

createProductInputSchema(raw) ==
  /\ {"name", "price"} \subseteq DOMAIN raw
  /\ min1(raw.name)
  /\ raw.price > 0
  /\ Has(raw, "stock_quantity") => (int(raw.stock_quantity) /\ raw.stock_quantity >= 0)

updateProductInputSchema(raw) ==
  /\ Has(raw, "id")
  /\ Has(raw, "name") => min1(raw.name)
  /\ Has(raw, "price") => raw.price > 0
  /\ Has(raw, "stock_quantity") => (int(raw.stock_quantity) /\ raw.stock_quantity >= 0)

createOrderInputSchema(raw) ==
  /\ {"user_id", "total_amount"} \subseteq DOMAIN raw
  /\ Has(raw, "status") => raw.status \in orderStatusSchema
  /\ raw.total_amount >= 0

updateOrderInputSchema(raw) ==
  /\ Has(raw, "id")
  /\ Has(raw, "status") => raw.status \in orderStatusSchema
  /\ Has(raw, "total_amount") => raw.total_amount >= 0

createOrderItemInputSchema(raw) ==
  /\ {"order_id", "product_id", "quantity", "unit_price", "subtotal"}
       \subseteq DOMAIN raw
  /\ int(raw.quantity) /\ raw.quantity > 0
  /\ raw.unit_price > 0
  /\ raw.subtotal >= 0

updateOrderItemInputSchema(raw) ==
  /\ Has(raw, "id")
  /\ Has(raw, "quantity") => (int(raw.quantity) /\ raw.quantity > 0)
  /\ Has(raw, "unit_price") => raw.unit_price > 0
  /\ Has(raw, "subtotal") => raw.subtotal >= 0

\* the input schema of the procedure that calls the handler op
InputSchema(op, raw) ==
  CASE op = "createUser" -> createUserInputSchema(raw)
    [] op = "updateUser" -> updateUserInputSchema(raw)
    [] op = "createCategory" -> createCategoryInputSchema(raw)
    [] op = "updateCategory" -> updateCategoryInputSchema(raw)
    [] op = "createProduct" -> createProductInputSchema(raw)
    [] op = "updateProduct" -> updateProductInputSchema(raw)
    [] op = "createOrder" -> createOrderInputSchema(raw)
    [] op = "updateOrder" -> updateOrderInputSchema(raw)
    [] op = "createOrderItem" -> createOrderItemInputSchema(raw)
    [] op = "updateOrderItem" -> updateOrderItemInputSchema(raw)

\* f with the field k set to v
With(f, k, v) == [j \in DOMAIN f \cup {k} |-> IF j = k THEN v ELSE f[j]]

\* what a client can send: the inputs above, and inputs with one field the
\* schema refuses
Raw(proc) ==
  CASE proc = "users.create" ->
         CreateUserInputs
          \cup {With(r, "name", "") : r \in CreateUserInputs}
          \cup {With(r, "email", "not-an-email") : r \in CreateUserInputs}
          \cup {With(r, "role", "root") : r \in CreateUserInputs}
          \cup {[name |-> "n1"]}
    [] proc = "users.update" ->
         UpdateUserInputs
          \cup {[id |-> 1, name |-> ""], [id |-> 1, email |-> "not-an-email"],
                [id |-> 1, role |-> "root"]}
    [] proc = "categories.create" ->
         CreateCategoryInputs \cup {[name |-> ""]}
    [] proc = "categories.update" ->
         UpdateCategoryInputs \cup {[id |-> 1, name |-> ""]}
    [] proc = "products.create" ->
         CreateProductInputs
          \cup {[name |-> "", price |-> 1999], [name |-> "n1", price |-> 0],
                [name |-> "n1", price |-> -1999],
                [name |-> "n1", price |-> 1999, stock_quantity |-> -100],
                [name |-> "n1", price |-> 1999, stock_quantity |-> 150]}
    [] proc = "products.update" ->
         UpdateProductInputs
          \cup {[id |-> 1, name |-> ""], [id |-> 1, price |-> 0],
                [id |-> 1, stock_quantity |-> -100], [id |-> 1, stock_quantity |-> 150]}
    [] proc = "orders.create" ->
         CreateOrderInputs
          \cup {[user_id |-> 1, total_amount |-> -1],
                [user_id |-> 1, total_amount |-> 9999, status |-> "lost"]}
    [] proc = "orders.update" ->
         UpdateOrderInputs
          \cup {[id |-> 1, total_amount |-> -1], [id |-> 1, status |-> "lost"]}
    [] proc = "orderItems.create" ->
         CreateOrderItemInputs
          \cup {With(r, "quantity", 150) : r \in CreateOrderItemInputs}
          \cup {With(r, "quantity", 0) : r \in CreateOrderItemInputs}
          \cup {With(r, "unit_price", 0) : r \in CreateOrderItemInputs}
          \cup {With(r, "subtotal", -1) : r \in CreateOrderItemInputs}
    [] proc = "orderItems.update" ->
         UpdateOrderItemInputs
          \cup {[id |-> 1, quantity |-> 150], [id |-> 1, quantity |-> -100],
                [id |-> 1, unit_price |-> 0], [id |-> 1, subtotal |-> -1]}

\* the input parser throws: the resolver, and with it the handler, is not run
BadRequest(op, raw) ==
  /\ last' = [op |-> op, input |-> raw, kind |-> "invalid", value |-> Null]
  /\ before' = tables
  /\ UNCHANGED <<tables, serial, clock, scope, updates, deleted, issued, ui, calls>>

users_create(raw) ==
  /\ scope = "users"
  /\ IF createUserInputSchema(raw) THEN createUser(raw)
     ELSE BadRequest("createUser", raw)

users_update(raw) ==
  /\ scope = "users"
  /\ IF updateUserInputSchema(raw) THEN updateUser(raw)
     ELSE BadRequest("updateUser", raw)

categories_create(raw) ==
  /\ scope = "categories"
  /\ IF createCategoryInputSchema(raw) THEN createCategory(raw)
     ELSE BadRequest("createCategory", raw)

categories_update(raw) ==
  /\ scope = "categories"
  /\ IF updateCategoryInputSchema(raw) THEN updateCategory(raw)
     ELSE BadRequest("updateCategory", raw)

products_create(raw) ==
  /\ scope = "products"
  /\ IF createProductInputSchema(raw) THEN createProduct(raw)
     ELSE BadRequest("createProduct", raw)

products_update(raw) ==
  /\ scope = "products"
  /\ IF updateProductInputSchema(raw) THEN updateProduct(raw)
     ELSE BadRequest("updateProduct", raw)

orders_create(raw) ==
  /\ scope = "orders"
  /\ IF createOrderInputSchema(raw) THEN createOrder(raw)
     ELSE BadRequest("createOrder", raw)

orders_update(raw) ==
  /\ scope = "orders"
  /\ IF updateOrderInputSchema(raw) THEN updateOrder(raw)
     ELSE BadRequest("updateOrder", raw)

orderItems_create(raw) ==
  /\ scope = "orderItems"
  /\ IF createOrderItemInputSchema(raw) THEN createOrderItem(raw)
     ELSE BadRequest("createOrderItem", raw)

orderItems_update(raw) ==
  /\ scope = "orderItems"
  /\ IF updateOrderItemInputSchema(raw) THEN updateOrderItem(raw)
     ELSE BadRequest("updateOrderItem", raw)

NextRouter ==
  \/ \E raw \in Raw("users.create") : users_create(raw)
  \/ \E raw \in Raw("users.update") : users_update(raw)
  \/ \E raw \in Raw("categories.create") : categories_create(raw)
  \/ \E raw \in Raw("categories.update") : categories_update(raw)
  \/ \E raw \in Raw("products.create") : products_create(raw)
  \/ \E raw \in Raw("products.update") : products_update(raw)
  \/ \E raw \in Raw("orders.create") : orders_create(raw)
  \/ \E raw \in Raw("orders.update") : orders_update(raw)
  \/ \E raw \in Raw("orderItems.create") : orderItems_create(raw)
  \/ \E raw \in Raw("orderItems.update") : orderItems_update(raw)

SpecRouter == Init /\ [][NextRouter]_vars

\* ------------------------------------------------ management components
\* SpecClient: one management component of the client.  ui holds its React
\* state: the list shown, the entity being edited, the form, and, as
\* history, the last request it sent and the ids it deleted and took off
\* its list.  A handler runs to the end of its awaited call; the server
\* answers every request with a result or with an error.

\* useState<Create...Input>({...}) of each component
initialFormData(c) ==
  CASE c = "users" -> [name |-> "", email |-> "", role |-> "user", is_active |-> TRUE]
    [] c = "categories" -> [name |-> "", description |-> Null, is_active |-> TRUE]
    [] c = "products" ->
         [name |-> "", description |-> Null, price |-> 0, stock_quantity |-> 0,
          category_id |-> Null, is_active |-> TRUE]
    [] c = "orders" ->
         [user_id |-> 0, status |-> "pending", total_amount |-> 0, notes |-> Null]
    [] c = "orderItems" ->
         [order_id |-> 0, product_id |-> 0, quantity |-> 100, unit_price |-> 0,
          subtotal |-> 0]

\* the rows getAll can answer with, by id: the fields the form shows
Rows(c, id) ==
  CASE c = "users" ->
         {[id |-> id, name |-> "n1", email |-> "e1", role |-> "user", is_active |-> TRUE]}
    [] c = "categories" ->
         {[id |-> id, name |-> "n1", description |-> Null, is_active |-> TRUE]}
    [] c = "products" ->
         {[id |-> id, name |-> "n1", description |-> Null, price |-> 1999,
           stock_quantity |-> 0, category_id |-> Null, is_active |-> TRUE]}
    [] c = "orders" ->
         {[id |-> id, user_id |-> 1, status |-> "pending", total_amount |-> 9999,
           notes |-> Null]}
    [] c = "orderItems" ->
         {[id |-> id, order_id |-> 1, product_id |-> 1, quantity |-> q,
           unit_price |-> 1050, subtotal |-> t] :
            q \in {100, 200}, t \in {1050, 2100}}

\* the values the inputs of the form can be set to
FieldValues(c) ==
  CASE c = "users" -> [name |-> {"n2"}, email |-> {"e2"}]
    [] c = "categories" -> [name |-> {"n2"}]
    [] c = "products" -> [name |-> {"n2"}, price |-> {950}]
    [] c = "orders" -> [user_id |-> {1}]
    [] c = "orderItems" -> [order_id |-> {1}, quantity |-> {200}, unit_price |-> {1050}]

\* the render that follows setFormData: the effect on [formData.quantity,
\* formData.unit_price] runs when one of the two has changed and sets
\* subtotal to quantity * unit_price
Rendered(c, prev, next) ==
  IF c = "orderItems"
     /\ (next.quantity # prev.quantity \/ next.unit_price # prev.unit_price)
  THEN [next EXCEPT !.subtotal = (next.quantity * next.unit_price) \div 100]
  ELSE next

ListIds == {ui.list[i].id : i \in DOMAIN ui.list}

\* the form can be submitted: its required text inputs are filled and the
\* submit button is not disabled
SubmitEnabled ==
  /\ ui.component \in {"users", "categories", "products"} => ui.formData.name # ""
  /\ ui.component = "users" => ui.formData.email # ""
  /\ ui.component = "orders" => ui.formData.user_id # 0
  /\ ui.component = "orderItems"
       => ui.formData.order_id # 0 /\ ui.formData.product_id # 0

\* useEffect(() => { load...() }): the list is the answer of getAll
load ==
  /\ ~ui.loaded
  /\ \E n \in 0..MaxId :
       \E result \in [1..n -> UNION {Rows(ui.component, id) : id \in 1..MaxId}] :
         /\ \A i \in 1..n : result[i].id = i
         /\ ui' = [ui EXCEPT !.list = result, !.loaded = TRUE]
  /\ UNCHANGED <<tables, serial, clock, scope, updates, last, before, deleted,
                 issued, calls>>

\* onChange / onValueChange of an input of the form
onChange ==
  /\ \E k \in DOMAIN FieldValues(ui.component) :
       \E v \in FieldValues(ui.component)[k] :
         ui' = [ui EXCEPT !.formData =
                  Rendered(ui.component, @, [@ EXCEPT ![k] = v])]
  /\ UNCHANGED <<tables, serial, clock, scope, updates, last, before, deleted,
                 issued, calls>>

handleProductChange(productId) ==
  /\ ui.component = "orderItems"
  /\ LET products == {[id |-> 1, price |-> 1050]}
         found == {p \in products : p.id = productId}
         price == IF found = {} THEN 0 ELSE (CHOOSE p \in found : TRUE).price
     IN ui' = [ui EXCEPT !.formData =
                 Rendered(ui.component, @,
                          [@ EXCEPT !.product_id = productId, !.unit_price = price])]
  /\ UNCHANGED <<tables, serial, clock, scope, updates, last, before, deleted,
                 issued, calls>>

\* the Edit button of the i-th row of the list
handleEdit(i) ==
  /\ i \in DOMAIN ui.list
  /\ LET item == ui.list[i]
     IN ui' = [ui EXCEPT
                 !.editing = Some(item),
                 !.formData = Rendered(ui.component, @,
                                       [k \in DOMAIN @ |-> item[k]])]
  /\ UNCHANGED <<tables, serial, clock, scope, updates, last, before, deleted,
                 issued, calls>>

cancelEdit ==
  /\ ui.editing # Null
  /\ ui' = [ui EXCEPT
              !.editing = Null,
              !.formData = Rendered(ui.component, @, initialFormData(ui.component))]
  /\ UNCHANGED <<tables, serial, clock, scope, updates, last, before, deleted,
                 issued, calls>>

handleDelete(id, ok) ==
  /\ id \in ListIds
  /\ ui' = IF ok
           THEN [ui EXCEPT
                   !.sent = [proc |-> "delete", input |-> [id |-> id]],
                   !.list = SelectSeq(@, LAMBDA e : e.id # id),
                   !.gone = @ \cup {id}]
           ELSE [ui EXCEPT !.sent = [proc |-> "delete", input |-> [id |-> id]]]
  /\ UNCHANGED <<tables, serial, clock, scope, updates, last, before, deleted,
                 issued, calls>>

handleSubmit(ok, newId) ==
  /\ SubmitEnabled
  /\ ui.editing = Null => newId \notin ListIds \cup ui.gone
  /\ LET c == ui.component
     IN IF ui.editing # Null
        THEN LET updateData == [id |-> ui.editing[1].id] @@ ui.formData
             IN ui' = IF ok
                      THEN [ui EXCEPT
                              !.sent = [proc |-> "update", input |-> updateData],
                              !.list = [i \in DOMAIN @ |->
                                          IF @[i].id = updateData.id
                                          THEN updateData ELSE @[i]],
                              !.editing = Null,
                              !.formData = Rendered(c, @, initialFormData(c))]
                      ELSE [ui EXCEPT
                              !.sent = [proc |-> "update", input |-> updateData]]
        ELSE ui' = IF ok
                   THEN [ui EXCEPT
                           !.sent = [proc |-> "create", input |-> ui.formData],
                           !.list = Append(@, [id |-> newId] @@ ui.formData),
                           !.formData = Rendered(c, @, initialFormData(c))]
                   ELSE [ui EXCEPT !.sent = [proc |-> "create", input |-> ui.formData]]
  /\ UNCHANGED <<tables, serial, clock, scope, updates, last, before, deleted,
                 issued, calls>>

InitClient ==
  /\ scope = "client"
  /\ usersTable = Empty
  /\ categoriesTable = Empty
  /\ productsTable = Empty
  /\ ordersTable = Empty
  /\ orderItemsTable = Empty
  /\ serial = [e \in Entities |-> 1]
  /\ clock = 0
  /\ updates = 0
  /\ last = NoCall
  /\ before = tables
  /\ deleted = [e \in Entities |-> {}]
  /\ issued = [e \in Entities |-> <<>>]
  /\ calls = [p \in Clients |-> Idle]
  /\ \E c \in Entities :
       ui = [component |-> c, list |-> <<>>, loaded |-> FALSE, editing |-> Null,
             formData |-> initialFormData(c), sent |-> [proc |-> "none"],
             gone |-> {}]

NextClient ==
  \/ load
  \/ onChange
  \/ \E productId \in {1} : handleProductChange(productId)
  \/ \E i \in Ids : handleEdit(i)
  \/ cancelEdit
  \/ \E id \in Ids, ok \in BOOLEAN : handleDelete(id, ok)
  \/ \E ok \in BOOLEAN, newId \in Ids : handleSubmit(ok, newId)

SpecClient == InitClient /\ [][NextClient]_vars

\* ================================================================= claims
\* the tables as the last call found them
usersBefore == before[1]
categoriesBefore == before[2]
productsBefore == before[3]
ordersBefore == before[4]
orderItemsBefore == before[5]

\* C1: createOrder with a user_id that references no existing User throws
\* 'User with id <n> not found' and writes nothing: the orders a following
\* getOrders returns are the orders before the call, and no table changed.
C1_CreateOrderMissingUser ==
  (last.op = "createOrder" /\ last.input.user_id \notin DOMAIN usersBefore)
    => /\ last.kind = "error"
       /\ last.value = [text |-> "User with id <n> not found", n |-> last.input.user_id]
       /\ SelectFrom(ordersTable) = SelectFrom(ordersBefore)
       /\ tables = before

\* a createOrder call for a missing user has failed, with an order in store
C1_Witness ==
  /\ last.op = "createOrder"
  /\ last.input.user_id \notin DOMAIN usersBefore
  /\ last.kind = "error"
  /\ ordersTable # Empty

\* C2: createOrderItem with an order_id or a product_id that references no
\* existing row throws and leaves the order-items table, and its row count,
\* as it was.
C2_CreateOrderItemMissingRef ==
  (/\ last.op = "createOrderItem"
   /\ \/ last.input.order_id \notin DOMAIN ordersBefore
      \/ last.input.product_id \notin DOMAIN productsBefore)
    => /\ last.kind = "error"
       /\ last.value =
            IF last.input.order_id \notin DOMAIN ordersBefore
            THEN [text |-> "Order with ID <n> does not exist", n |-> last.input.order_id]
            ELSE [text |-> "Product with ID <n> does not exist",
                  n |-> last.input.product_id]
       /\ orderItemsTable = orderItemsBefore
       /\ Cardinality(DOMAIN orderItemsTable) = Cardinality(DOMAIN orderItemsBefore)

\* a createOrderItem call for an existing order and a missing product has
\* failed, with an order item in store
C2_Witness ==
  /\ last.op = "createOrderItem"
  /\ last.input.order_id \in DOMAIN ordersBefore
  /\ last.input.product_id \notin DOMAIN productsBefore
  /\ last.kind = "error"
  /\ orderItemsTable # Empty

\* the calls of SpecRace that have passed an existence check of the handler
PastCheck(op, local) ==
  {p \in DOMAIN calls : calls[p].op = op /\ local \in DOMAIN calls[p]}

\* C3 (as stated): the check before the insert keeps orphaned rows out even
\* when other calls interleave: whenever createOrder has inserted, the user
\* of the new order exists at the moment of the insert, and whenever
\* createOrderItem has inserted, the order and the product of the new order
\* item exist at the moment of the insert.
C3_NoOrphanAtInsert ==
  /\ (last.op = "createOrder" /\ last.kind = "ok")
       => last.value.user_id \in DOMAIN usersBefore
  /\ (last.op = "createOrderItem" /\ last.kind = "ok")
       => /\ last.value.order_id \in DOMAIN ordersBefore
          /\ last.value.product_id \in DOMAIN productsBefore

\* C3 (amended): a call inserts only after its own existence checks found
\* the rows its input references, and a reference that is missing at the
\* moment of the insert is to a row that a delete removed after the check.
C3_CheckedBeforeInsert ==
  /\ \A p \in PastCheck("createOrder", "existingUser") :
       /\ Len(calls[p].existingUser) > 0
       /\ calls[p].existingUser[1].id = calls[p].input.user_id
  /\ \A p \in PastCheck("createOrderItem", "order") :
       /\ Len(calls[p].order) > 0
       /\ calls[p].order[1].id = calls[p].input.order_id
  /\ \A p \in PastCheck("createOrderItem", "product") :
       /\ Len(calls[p].product) > 0
       /\ calls[p].product[1].id = calls[p].input.product_id
  /\ \A p \in DOMAIN calls :
       (calls[p].op \in {"createOrder", "createOrderItem"} /\ calls[p].pc = "insert")
         => IF calls[p].op = "createOrder"
            THEN "existingUser" \in DOMAIN calls[p]
            ELSE {"order", "product"} \subseteq DOMAIN calls[p]
  /\ (last.op = "createOrder" /\ last.kind = "ok")
       => last.value.user_id \in DOMAIN usersBefore \cup deleted["users"]
  /\ (last.op = "createOrderItem" /\ last.kind = "ok")
       => /\ last.value.order_id \in DOMAIN ordersBefore \cup deleted["orders"]
          /\ last.value.product_id \in DOMAIN productsBefore \cup deleted["products"]

\* createOrder has inserted an order whose user a deleteUser removed between
\* the check and the insert
C3_Witness ==
  /\ last.op = "createOrder"
  /\ last.kind = "ok"
  /\ last.value.user_id \notin DOMAIN usersBefore
  /\ last.value.user_id \in deleted["users"]
  /\ last.value.id \in DOMAIN ordersTable

\* the update handlers, the table each writes, and the columns stored as text
UpdateOps == {"updateUser", "updateCategory", "updateProduct", "updateOrder",
              "updateOrderItem"}

EntityOf(op) ==
  CASE op \in {"createUser", "getUsers", "getUserById", "updateUser", "deleteUser"} -> 1
    [] op \in {"createCategory", "getCategories", "getCategoryById",
               "updateCategory", "deleteCategory"} -> 2
    [] op \in {"createProduct", "getProducts", "getProductById", "updateProduct",
               "deleteProduct"} -> 3
    [] op \in {"createOrder", "getOrders", "getOrderById", "updateOrder",
               "deleteOrder"} -> 4
    [] op \in {"createOrderItem", "getOrderItems", "getOrderItemById",
               "getOrderItemsByOrderId", "updateOrderItem", "deleteOrderItem"} -> 5

NumericColumns == {"price", "total_amount", "unit_price", "subtotal"}

\* C4: a successful update changes exactly the supplied fields of its target
\* row: a supplied field takes the supplied value, every other field except
\* updated_at keeps its prior value in storage and in the returned record,
\* and no other row and no other table changes.
C4_UpdateFrame ==
  (last.op \in UpdateOps /\ last.kind = "ok")
    => LET e == EntityOf(last.op)
           id == last.input.id
           old == before[e][id]
           new == tables[e][id]
           ret == last.value
       IN /\ DOMAIN new = DOMAIN old
          /\ DOMAIN ret = DOMAIN old
          /\ \A k \in DOMAIN old \ {"updated_at"} :
               /\ IF k \in DOMAIN last.input
                  THEN new[k] = IF k \in NumericColumns THEN toString(last.input[k])
                                ELSE last.input[k]
                  ELSE new[k] = old[k]
               /\ ret[k] = IF k \in NumericColumns THEN parseFloat(new[k]) ELSE new[k]
          /\ DOMAIN tables[e] = DOMAIN before[e]
          /\ \A j \in DOMAIN tables[e] \ {id} : tables[e][j] = before[e][j]
          /\ \A f \in 1..5 \ {e} : tables[f] = before[f]

\* updateProduct has succeeded on an input that supplies the price only, for
\* a product whose name, description and stock differ from the defaults
C4_Witness ==
  /\ last.op = "updateProduct"
  /\ last.kind = "ok"
  /\ DOMAIN last.input = {"id", "price"}
  /\ productsBefore[last.input.id].description # Null
  /\ productsBefore[last.input.id].price # productsTable[last.input.id].price
  /\ productsBefore[last.input.id].description = last.value.description

\* C5: for User, Category, Product and Order every successful update leaves
\* the row with an updated_at strictly greater than the one it had before.
C5_UpdatedAtStrictlyAdvances ==
  (last.op \in UpdateOps \ {"updateOrderItem"} /\ last.kind = "ok")
    => tables[EntityOf(last.op)][last.input.id].updated_at
         > before[EntityOf(last.op)][last.input.id].updated_at

\* the tables that carry updated_at
Timestamped == {usersTable, categoriesTable, productsTable, ordersTable}

\* C6: every stored User, Category, Product and Order row has
\* created_at <= updated_at, after create and after any updates.
C6_CreatedBeforeUpdated ==
  \A table \in Timestamped : \A id \in DOMAIN table :
    table[id].created_at <= table[id].updated_at

\* an update has moved a row's updated_at past its created_at
C6_Witness ==
  /\ last.op \in UpdateOps \ {"updateOrderItem"}
  /\ last.kind = "ok"
  /\ last.value.created_at < last.value.updated_at
  /\ tables[EntityOf(last.op)][last.input.id].created_at
       < tables[EntityOf(last.op)][last.input.id].updated_at

GetByIdOps == {"getUserById", "getCategoryById", "getProductById", "getOrderById",
               "getOrderItemById"}

EntityNames == <<"users", "categories", "products", "orders", "orderItems">>

\* C7: getById on an id that no create call has returned yields null and
\* raises no error.
C7_GetByIdNeverCreated ==
  (last.op \in GetByIdOps /\ last.input.id >= serial[EntityNames[EntityOf(last.op)]])
    => /\ last.kind = "ok"
       /\ last.value = Null
       /\ tables = before

\* getOrderItemById was asked for an id not yet given out, with an order
\* item in store
C7_Witness ==
  /\ last.op = "getOrderItemById"
  /\ last.input.id >= serial.orderItems
  /\ orderItemsTable # Empty
  /\ last.value = Null

\* C8: once delete has removed a row, its id stays absent: no later create
\* or update brings it back, and getById on it returns null.
C8_DeletedStaysAbsent ==
  /\ \A e \in 1..5 : deleted[EntityNames[e]] \cap DOMAIN tables[e] = {}
  /\ (last.op \in GetByIdOps /\ last.input.id \in deleted[EntityNames[EntityOf(last.op)]])
       => last.kind = "ok" /\ last.value = Null

\* getCategoryById returned null for a deleted id after a later create
C8_Witness ==
  /\ last.op = "getCategoryById"
  /\ last.input.id \in deleted["categories"]
  /\ last.value = Null
  /\ \E id \in DOMAIN categoriesTable : id > last.input.id

DeleteOps == {"deleteUser", "deleteCategory", "deleteProduct", "deleteOrder",
              "deleteOrderItem"}

\* what every delete does to the tables: the row of the id is gone, nothing
\* else changed
DeleteEffect ==
  LET e == EntityOf(last.op)
  IN /\ tables[e] = Delete(before[e], last.input.id)
     /\ \A f \in 1..5 \ {e} : tables[f] = before[f]

\* C9 (as stated): for each of the five entities delete removes the row if
\* present and returns success true exactly when a row with the id existed.
C9_SuccessIffExisted ==
  last.op \in DeleteOps
    => /\ last.kind = "ok"
       /\ last.value.success = (last.input.id \in DOMAIN before[EntityOf(last.op)])
       /\ DeleteEffect

\* C9 (amended): deleteCategory, deleteProduct and deleteOrder return success
\* true exactly when the row existed; deleteOrderItem returns success true
\* whether or not it existed; deleteUser returns success true when it
\* existed and throws 'User with ID <n> not found' when it did not.  Each
\* removes the row if present and changes nothing else.
C9_DeleteOutcome ==
  last.op \in DeleteOps
    => LET existed == last.input.id \in DOMAIN before[EntityOf(last.op)]
       IN /\ DeleteEffect
          /\ last.op \in {"deleteCategory", "deleteProduct", "deleteOrder"}
               => last.kind = "ok" /\ last.value = [success |-> existed]
          /\ last.op = "deleteOrderItem"
               => last.kind = "ok" /\ last.value = [success |-> TRUE]
          /\ last.op = "deleteUser"
               => IF existed
                  THEN last.kind = "ok" /\ last.value = [success |-> TRUE]
                  ELSE /\ last.kind = "error"
                       /\ last.value = [text |-> "User with ID <n> not found",
                                        n |-> last.input.id]

\* deleteOrder was called for an id with no row and returned success false
C9_Witness ==
  /\ last.op = "deleteOrder"
  /\ last.input.id \notin DOMAIN ordersBefore
  /\ last.value = [success |-> FALSE]
  /\ ordersTable # Empty

\* C10: deleteOrderItem returns {success: true} for every id, and for an id
\* with no order item it leaves the order-items table unchanged.
C10_DeleteOrderItemAlwaysSucceeds ==
  last.op = "deleteOrderItem"
    => /\ last.kind = "ok"
       /\ last.value = [success |-> TRUE]
       /\ last.input.id \notin DOMAIN orderItemsBefore
            => orderItemsTable = orderItemsBefore

\* deleteOrderItem was called for an id with no order item, with an order
\* item in store
C10_Witness ==
  /\ last.op = "deleteOrderItem"
  /\ last.input.id \notin DOMAIN orderItemsBefore
  /\ orderItemsBefore # Empty
  /\ last.value = [success |-> TRUE]

\* C11: deleteUser and updateUser on an id with no User throw
\* 'User with ID <n> not found', return neither a success flag nor a
\* record, and leave the users table unchanged.
C11_UserNotFoundThrows ==
  (last.op \in {"deleteUser", "updateUser"} /\ last.input.id \notin DOMAIN usersBefore)
    => /\ last.kind = "error"
       /\ last.value = [text |-> "User with ID <n> not found", n |-> last.input.id]
       /\ usersTable = usersBefore

\* the optional create fields that carry a default, and the default of each
DefaultsOf(op) ==
  CASE op = "createUser" -> [role |-> "user", is_active |-> TRUE]
    [] op = "createCategory" -> [is_active |-> TRUE]
    [] op = "createProduct" -> [stock_quantity |-> 0, is_active |-> TRUE]
    [] op = "createOrder" -> [status |-> "pending"]

\* C12: a successful create stores and returns, for each optional field
\* that carries a default, the default when the input omits the field and
\* the supplied value (false and 0 too) when the input gives it.
C12_CreateDefaults ==
  (last.op \in {"createUser", "createCategory", "createProduct", "createOrder"}
     /\ last.kind = "ok")
    => LET row == tables[EntityOf(last.op)][last.value.id]
           default == DefaultsOf(last.op)
       IN \A k \in DOMAIN default :
            /\ row[k] = IF k \in DOMAIN last.input THEN last.input[k] ELSE default[k]
            /\ last.value[k] = row[k]

\* createProduct has stored is_active false and stock_quantity 0 as supplied
C12_Witness ==
  /\ last.op = "createProduct"
  /\ last.kind = "ok"
  /\ {"stock_quantity", "is_active"} \subseteq DOMAIN last.input
  /\ last.input.is_active = FALSE
  /\ last.input.stock_quantity = 0
  /\ productsTable[last.value.id].is_active = FALSE
  /\ productsTable[last.value.id].stock_quantity = 0

\* C13: identity keys are assigned on create and never reassigned: the ids
\* the create calls of an entity have returned are pairwise distinct (ids
\* of rows since deleted included), every stored row sits under its own
\* id, and an update returns the id it was given and moves no row.
C13_IdsNeverReassigned ==
  /\ \A e \in Entities : \A i, j \in DOMAIN issued[e] :
       i # j => issued[e][i] # issued[e][j]
  /\ \A e \in 1..5 : \A id \in DOMAIN tables[e] : tables[e][id].id = id
  /\ (last.op \in UpdateOps /\ last.kind = "ok")
       => /\ last.value.id = last.input.id
          /\ DOMAIN tables[EntityOf(last.op)] = DOMAIN before[EntityOf(last.op)]

CreateOps == {"createUser", "createCategory", "createProduct", "createOrder",
              "createOrderItem"}

\* a step in which a create call has inserted and returned a row
CreateStep == serial' # serial /\ last'.op \in CreateOps /\ last'.kind = "ok"

\* C14: create is not idempotent: every successful create adds exactly one
\* row under an id no stored row has and changes no other row; a successful
\* create that follows a successful create with the identical input leaves
\* two rows with equal field values and different ids.
C14_CreateNotIdempotent ==
  [][CreateStep =>
       LET e == EntityOf(last'.op)
           id == last'.value.id
           old == tables[e]
           new == tables'[e]
       IN /\ id \notin DOMAIN old
          /\ DOMAIN new = DOMAIN old \cup {id}
          /\ Cardinality(DOMAIN new) = Cardinality(DOMAIN old) + 1
          /\ \A j \in DOMAIN old : new[j] = old[j]
          /\ (last.op = last'.op /\ last.kind = "ok" /\ last.input = last'.input)
               => /\ last.value.id # id
                  /\ last.value.id \in DOMAIN new
                  /\ SameFields(new[last.value.id], new[id])]_vars

\* createOrderItem has left a second order item with the fields of the first
C14_Witness ==
  /\ last.op = "createOrderItem"
  /\ last.kind = "ok"
  /\ \E j \in DOMAIN orderItemsTable :
       /\ j # last.value.id
       /\ SameFields(orderItemsTable[j], orderItemsTable[last.value.id])
       /\ orderItemsTable[j].quantity = last.input.quantity

GetAllOps == {"getUsers", "getCategories", "getProducts", "getOrders", "getOrderItems"}

\* C15: getAll returns every stored row exactly once, in insertion order,
\* and the empty list on an empty table.
C15_GetAllInsertionOrder ==
  (last.op \in GetAllOps /\ last.kind = "ok")
    => LET rows == SelectAll(tables[EntityOf(last.op)])
       IN /\ Len(last.value) = Len(rows)
          /\ \A i \in DOMAIN rows : last.value[i].id = rows[i].id

\* getAll returns every stored row exactly once and touches no table
C15_GetAllEveryRowOnce ==
  (last.op \in GetAllOps /\ last.kind = "ok")
    => /\ {last.value[i].id : i \in DOMAIN last.value} = DOMAIN tables[EntityOf(last.op)]
       /\ Len(last.value) = Cardinality(DOMAIN tables[EntityOf(last.op)])
       /\ tables = before

\* the amounts, in cents, that the create and update inputs write
Amounts == {0, 950, 1050, 1999, 2999, 3150, 5998, 9999}

\* the record reads as numbers the amounts that were written to the row
ReadsBack(record, row) ==
  \A k \in NumericColumns \cap DOMAIN record :
    record[k] \in Amounts /\ toString(record[k]) = row[k]

\* C16: a currency field comes back as the number that was written: create
\* and update return the amount of their input, and create, update, getById
\* and getAll return, for every currency field, the number whose text the
\* row stores, never the text itself.
C16_CurrencyRoundTrip ==
  LET e == EntityOf(last.op)
  IN /\ (last.op \in CreateOps \cup UpdateOps /\ last.kind = "ok")
          => /\ \A k \in NumericColumns \cap DOMAIN last.input :
                  last.value[k] = last.input[k]
             /\ ReadsBack(last.value, tables[e][last.value.id])
     /\ (last.op \in GetByIdOps /\ last.kind = "ok" /\ last.value # Null)
          => ReadsBack(last.value[1], tables[e][last.input.id])
     /\ (last.op \in GetAllOps /\ last.kind = "ok")
          => \A i \in DOMAIN last.value :
               ReadsBack(last.value[i], tables[e][last.value[i].id])

\* getProductById has returned 9.5 for a price stored without its trailing zero
C16_Witness ==
  /\ last.op = "getProductById"
  /\ last.value # Null
  /\ last.value[1].price = 950
  /\ productsTable[last.input.id].price = [whole |-> 9, frac |-> <<5>>]

\* a stored row as the handlers return it: the currency columns as numbers
Coerced(row) ==
  [k \in DOMAIN row |-> IF k \in NumericColumns THEN parseFloat(row[k]) ELSE row[k]]

\* the ids create has returned for the e-th table and no delete has removed
Live(e) ==
  {issued[EntityNames[e]][i] : i \in DOMAIN issued[EntityNames[e]]}
    \ deleted[EntityNames[e]]

\* C17: create persists: the record a successful create returns carries a
\* generated id under which the row is stored with the returned field
\* values; as long as no delete removes it, getById with that id returns the
\* stored record, not null, and getAll contains it.
C17_CreatePersists ==
  LET e == EntityOf(last.op)
  IN /\ (last.op \in CreateOps /\ last.kind = "ok")
          => /\ last.value.id \in DOMAIN tables[e]
             /\ last.value = Coerced(tables[e][last.value.id])
     /\ \A f \in 1..5 : Live(f) \subseteq DOMAIN tables[f]
     /\ (last.op \in GetByIdOps /\ last.kind = "ok" /\ last.input.id \in Live(e))
          => /\ last.value # Null
             /\ last.value = Some(Coerced(tables[e][last.input.id]))
     /\ (last.op \in GetAllOps /\ last.kind = "ok")
          => Live(e) \subseteq {last.value[i].id : i \in DOMAIN last.value}

RouterOps == CreateOps \cup UpdateOps

\* an input with a field of the kinds the rule speaks of: an empty name, a
\* malformed email, a price that is not positive, a negative stock quantity,
\* a quantity that is not a positive integer, a negative total amount or
\* subtotal, a role or a status outside its enumeration
Malformed(input) ==
  \/ Has(input, "name") /\ input.name = ""
  \/ Has(input, "email") /\ input.email \notin {"e1", "e2"}
  \/ Has(input, "price") /\ input.price <= 0
  \/ Has(input, "stock_quantity") /\ input.stock_quantity < 0
  \/ Has(input, "quantity") /\ (input.quantity % 100 # 0 \/ input.quantity <= 0)
  \/ Has(input, "total_amount") /\ input.total_amount < 0
  \/ Has(input, "subtotal") /\ input.subtotal < 0
  \/ Has(input, "role") /\ input.role \notin {"admin", "user", "guest"}
  \/ Has(input, "status")
       /\ input.status \notin {"pending", "processing", "shipped", "delivered",
                               "cancelled"}

\* C18: validation precedes persistence: a create or update call of the
\* router whose input is malformed ends in a validation error, its handler
\* has produced no outcome (no row returned, no id issued, no handler error),
\* and every table is as it was before the call.
C18_ValidationFirst ==
  (last.op \in RouterOps /\ Malformed(last.input))
    => /\ last.kind = "invalid"
       /\ tables = before

\* orderItems.create was refused for a quantity of 1.5, with an order item
\* in store
C18_Witness ==
  /\ last.op = "createOrderItem"
  /\ last.kind = "invalid"
  /\ last.input.quantity = 150
  /\ orderItemsTable # Empty
  /\ orderItemsTable = orderItemsBefore

\* the messages that report a row that is not there
NotFoundTexts ==
  {"User with ID <n> not found", "User with id <n> not found",
   "Category with ID <n> not found", "Product with ID <n> not found",
   "Order with id <n> not found", "Order item with ID <n> does not exist"}

\* C19: for every entity, update on an id with no row fails with a
\* not-found error: it returns no record, defaulted or otherwise, and every
\* table is as it was before the call, so no row was created.
C19_UpdateMissingFails ==
  (last.op \in UpdateOps /\ last.input.id \notin DOMAIN before[EntityOf(last.op)])
    => /\ last.kind = "error"
       /\ last.value.text \in NotFoundTexts
       /\ tables = before

\* C20: an update that would point a row at a missing parent fails with
\* the referential error naming the missing id, and every table, the target
\* row and its updated_at included, is as it was before the call:
\* updateOrder with a user_id that has no User; updateOrderItem on a stored
\* item with an order_id that has no Order, or else with a product_id that
\* has no Product.
C20_UpdateReferenceChecked ==
  /\ (/\ last.op = "updateOrder"
      /\ Has(last.input, "user_id")
      /\ last.input.user_id \notin DOMAIN usersBefore)
       => /\ last.kind = "error"
          /\ last.value = [text |-> "User with id <n> not found",
                           n |-> last.input.user_id]
          /\ tables = before
  /\ (/\ last.op = "updateOrderItem"
      /\ last.input.id \in DOMAIN orderItemsBefore
      /\ Has(last.input, "order_id")
      /\ last.input.order_id \notin DOMAIN ordersBefore)
       => /\ last.kind = "error"
          /\ last.value = [text |-> "Order with ID <n> does not exist",
                           n |-> last.input.order_id]
          /\ tables = before
  /\ (/\ last.op = "updateOrderItem"
      /\ last.input.id \in DOMAIN orderItemsBefore
      /\ Has(last.input, "order_id") => last.input.order_id \in DOMAIN ordersBefore
      /\ Has(last.input, "product_id")
      /\ last.input.product_id \notin DOMAIN productsBefore)
       => /\ last.kind = "error"
          /\ last.value = [text |-> "Product with ID <n> does not exist",
                           n |-> last.input.product_id]
          /\ tables = before

\* updateOrderItem was refused for its product_id, on a stored item whose
\* new order_id is in store
C20_Witness ==
  /\ last.op = "updateOrderItem"
  /\ last.kind = "error"
  /\ last.input.id \in DOMAIN orderItemsTable
  /\ Has(last.input, "order_id")
  /\ last.input.order_id \in DOMAIN ordersTable
  /\ Has(last.input, "product_id")
  /\ last.input.product_id \notin DOMAIN productsTable
  /\ last.value.n = last.input.product_id
  /\ orderItemsTable = orderItemsBefore

\* C21: delete is a hard, non-cascading removal: a delete of any entity
\* removes at most the row of the id from that entity's table; every other
\* row of that table and every row of every other table is as it was before
\* the call, the rows that reference the deleted row included.
C21_DeleteNonCascading ==
  last.op \in DeleteOps
    => LET e == EntityOf(last.op)
       IN /\ DOMAIN before[e] \ {last.input.id} \subseteq DOMAIN tables[e]
          /\ DOMAIN tables[e] \subseteq DOMAIN before[e]
          /\ \A i \in DOMAIN tables[e] : tables[e][i] = before[e][i]
          /\ last.input.id \notin DOMAIN tables[e]
          /\ \A f \in 1..5 \ {e} : tables[f] = before[f]

\* deleteOrder removed an order and an item of that order is still stored
C21_Witness ==
  /\ last.op = "deleteOrder"
  /\ last.value = [success |-> TRUE]
  /\ last.input.id \notin DOMAIN ordersTable
  /\ \E i \in DOMAIN orderItemsTable : orderItemsTable[i].order_id = last.input.id

\* C22: Order.status has no transition rules: updateOrder with a status
\* s2 on a stored order whose status is s1 succeeds for every pair (s1, s2)
\* of the enumeration, returns the order with status s2 and stores it so.
C22_AnyStatusFromAny ==
  (/\ last.op = "updateOrder"
   /\ last.input.id \in DOMAIN ordersBefore
   /\ Has(last.input, "status")
   /\ Has(last.input, "user_id") => last.input.user_id \in DOMAIN usersBefore)
    => /\ last.kind = "ok"
       /\ last.value.status = last.input.status
       /\ ordersTable[last.input.id].status = last.input.status

\* a delivered order was set back to pending
C22_Witness ==
  /\ last.op = "updateOrder"
  /\ last.kind = "ok"
  /\ last.input.id \in DOMAIN ordersBefore
  /\ ordersBefore[last.input.id].status = "delivered"
  /\ last.input.status = "pending"
  /\ ordersTable[last.input.id].status = "pending"

\* the ids of the stored order items of an order
ItemsOf(table, id) == {i \in DOMAIN table : table[i].order_id = id}

\* C23: getOrderItemsByOrderId returns exactly the stored order items
\* whose order_id is the id, each once and in insertion order, and the empty
\* list when there is none, whether or not an order has the id.
C23_ByOrderIdInsertionOrder ==
  last.op = "getOrderItemsByOrderId"
    => LET ids == ItemsOf(orderItemsTable, last.input.id)
       IN /\ last.kind = "ok"
          /\ Len(last.value) = Cardinality(ids)
          /\ {last.value[i].id : i \in DOMAIN last.value} = ids
          /\ \A i, j \in DOMAIN last.value :
               i < j => last.value[i].id < last.value[j].id

\* getOrderItemsByOrderId returns exactly the stored order items whose
\* order_id is the id, each once, the empty list when there is none, whether
\* or not an order has the id, and touches no table
C23_ByOrderIdExactly ==
  last.op = "getOrderItemsByOrderId"
    => LET ids == ItemsOf(orderItemsTable, last.input.id)
       IN /\ last.kind = "ok"
          /\ Len(last.value) = Cardinality(ids)
          /\ {last.value[i].id : i \in DOMAIN last.value} = ids
          /\ \A i \in DOMAIN last.value :
               last.value[i] = Coerced(orderItemsTable[last.value[i].id])
          /\ tables = before

ReadOps == GetAllOps \cup GetByIdOps \cup {"getOrderItemsByOrderId", "healthcheck"}

\* the step is a call (the clock stands still), and the call that follows a
\* read is the same read again
ReadAgain ==
  /\ clock' = clock
  /\ last.op \in ReadOps
  /\ last'.op = last.op
  /\ last'.input = last.input

\* C24 (as stated): a read leaves every table unchanged, and the same read
\* repeated with no write in between returns the same result.
C24_ReadsRepeatExactly ==
  [][ /\ last'.op \in ReadOps => (last'.kind = "ok" /\ tables' = before')
      /\ ReadAgain => last'.value = last.value ]_vars

\* C24 (amended): a read leaves every table unchanged; repeated with no
\* write in between, getById returns the same result, getAll and
\* getOrderItemsByOrderId return the same rows, and healthcheck returns the
\* status 'ok' with the time of the call.
C24_ReadsSideEffectFree ==
  [][ /\ last'.op \in ReadOps => (last'.kind = "ok" /\ tables' = before')
      /\ (ReadAgain /\ last.op \in GetByIdOps) => last'.value = last.value
      /\ (ReadAgain /\ last.op \in GetAllOps \cup {"getOrderItemsByOrderId"})
           => /\ Len(last'.value) = Len(last.value)
              /\ {last'.value[i] : i \in DOMAIN last'.value}
                   = {last.value[i] : i \in DOMAIN last.value}
      /\ (ReadAgain /\ last.op = "healthcheck")
           => /\ last'.value.status = "ok"
              /\ last'.value.timestamp = clock' ]_vars

\* healthcheck answered at the last instant of the clock, over a stored user,
\* and no table changed
C24_Witness ==
  /\ last.op = "healthcheck"
  /\ last.value = [status |-> "ok", timestamp |-> MaxTime]
  /\ usersTable # Empty
  /\ tables = before

\* the message with which each update handler reports a missing target row
TargetNotFound(op) ==
  CASE op = "updateUser" -> "User with ID <n> not found"
    [] op = "updateCategory" -> "Category with ID <n> not found"
    [] op = "updateProduct" -> "Product with ID <n> not found"
    [] op = "updateOrder" -> "Order with id <n> not found"
    [] op = "updateOrderItem" -> "Order item with ID <n> does not exist"

\* C25: in every update handler the check of the target row comes first:
\* an update on an id with no row fails with the target-not-found error
\* naming that id, whatever foreign keys the input supplies; updateOrder on
\* a missing order with a missing user_id reports the order, not the user.
C25_TargetCheckedFirst ==
  (last.op \in UpdateOps /\ last.input.id \notin DOMAIN before[EntityOf(last.op)])
    => /\ last.kind = "error"
       /\ last.value = [text |-> TargetNotFound(last.op), n |-> last.input.id]

Done == {p \in Clients : calls[p].pc = "done"}

\* C27: whatever delete runs between its statements, updateUser and
\* updateOrderItem either return the updated record or throw an error of
\* their own (the target not found, or a referenced order or product not
\* found); they never return an undefined record and never throw another
\* error.
C27_UpdateOutcomeUnderDelete ==
  \A p \in Done :
    LET out == calls[p].outcome
    IN out.op \in {"updateUser", "updateOrderItem"}
         => \/ /\ out.kind = "ok"
               /\ out.value # Undefined
               /\ out.value.id = out.input.id
            \/ /\ out.kind = "error"
               /\ out.value.text \in {TargetNotFound(out.op),
                                      "Order with ID <n> does not exist",
                                      "Product with ID <n> does not exist"}

\* C28: of two concurrent delete calls for the same id of one entity, at
\* most one reports success true, under every interleaving of their
\* statements.
C28_OneDeleteSucceeds ==
  \A p, q \in Done :
    LET a == calls[p].outcome
        b == calls[q].outcome
    IN (/\ p # q
        /\ a.op \in DeleteOps
        /\ b.op = a.op
        /\ b.input.id = a.input.id)
         => ~(/\ a.kind = "ok" /\ a.value = [success |-> TRUE]
              /\ b.kind = "ok" /\ b.value = [success |-> TRUE])

\* C29: every create or update that OrderItemManagement submits carries
\* subtotal = quantity * unit_price of the form, after any sequence of field
\* edits, product selections, handleEdit, cancelEdit and submits.
C29_SubtotalIsProduct ==
  (ui.component = "orderItems" /\ ui.sent.proc \in {"create", "update"})
    => ui.sent.input.subtotal
         = (ui.sent.input.quantity * ui.sent.input.unit_price) \div 100

\* C30: in each management component the entity being edited is in the
\* component's list, and no update has been submitted for an id that the
\* component had deleted and taken off its list.
C30_EditedEntityListed ==
  /\ ui.editing # Null => ui.editing[1].id \in ListIds
  /\ ui.sent.proc = "update" => ui.sent.input.id \notin ui.gone
====
